---- MODULE Spec2Model ----
(***************************************************************************)
(* Research-gap pipeline: the slug normalizers, the match strategies, the  *)
(* oracle fall-back and the gap-detector loops of                          *)
(*   src/test_research_gaps_no_llm.py  (four-strategy pipeline)            *)
(*   src/src/api.py                    (/research-gaps/analyze)            *)
(*   src/app.py, src/src/main.py       (strict exact + oracle pipeline)    *)
(* Strings are sequences of one-character strings.                         *)
(***************************************************************************)
EXTENDS Integers, Sequences, FiniteSets, TLC

VARIABLES
    \* ---- normalizer harness (SpecNorm) ----
    n_pc,        \* "input" | "done"
    n_url,       \* the raw URL string handed to the normalizers
    n_slug,      \* normalize_url(n_url) of test_research_gaps_no_llm.py
    n_slug_api,  \* normalize_url(n_url) of src/src/api.py
    n_text,      \* normalize_text(n_url) of app.py / main.py
    \* ---- match-strategy harness (SpecMatch) ----
    m_pc,        \* "input" | "done"
    m_service,   \* the service string
    m_location,  \* the location string
    m_url,       \* the raw URL string
    m_result,    \* comprehensive_match(...) of test_research_gaps_no_llm.py
    m_api,       \* comprehensive_match(...) of src/src/api.py
    \* ---- oracle harness (SpecOracle): one check_match call ----
    o_pc,        \* "input" | "done"
    o_service,
    o_location,
    o_url,
    o_transport, \* what the HTTP round trip to the oracle does, see Transports
    o_body,      \* the text of the payload's 'response' field when the trip succeeds
    o_result,    \* what check_match returned or raised, and whether it asked the oracle
    \* ---- single-strategy harness (SpecStrategy) ----
    t_pc,        \* "input" | "done"
    t_service,   \* the service string
    t_location,  \* the location string
    t_slug,      \* the slug string handed to each strategy
    t_exact,     \* exact_phrase_match(t_service, t_location, t_slug)
    t_token,     \* token_based_match(t_service, t_location, t_slug)
    t_regex,     \* regex_pattern_match(t_service, t_location, t_slug)
    t_fuzzy,     \* fuzzy_similarity_match(t_service, t_location, t_slug, threshold=0.8)
    \* ---- gap detector (Spec): one run of an entry point ----
    pc,            \* "idle" | "scan" | "close" | "finish" | "done" | "error" | "raised"
    entry,         \* "no_llm" | "api" | "logic": which entry point runs
    services,      \* the services list of the run
    locations,     \* the locations list of the run
    sitemap_urls,  \* the URLs load_sitemap_urls returned
    si, li, ui,    \* positions of the three nested loops (1-based)
    found_match,   \* the loop's found_match flag
    gaps,          \* the run's gaps list
    matches,       \* the run's matches dict: combination string -> record
    tested,        \* the check calls made so far for the current combination
    error,         \* the error the run ended with, "" when none
    session_research_gaps,  \* st.session_state.research_gaps of app.py
    db_research_gaps,       \* the rows of the research_gaps table of api.py
    \* ---- articles and WordPress (SpecArticles): the article endpoints of api.py ----
    wordpress_service,  \* the global of api.py: None, or "service" once authenticated
    articles,           \* the articles table: article id -> row
    wp_posts,           \* the posts the WordPress site holds: post id -> post
    wp_next_id,         \* the id the WordPress site gives to its next post
    http_response,      \* the last call: endpoint, arguments, what WordPress did, status code
    http_body,          \* the fields of the last call's reply that the caller reads
    \* ---- GET /wordpress/posts (SpecPosts): one call of get_wordpress_posts ----
    p_pc,          \* "call" | "loop" | "after" | "done"
    fetch_all,     \* the request's fetch_all parameter
    current_page,  \* the loop's current_page
    all_posts,     \* len(all_posts), counted in posts
    p_requests,    \* how many pages of posts have been requested from the site
    p_stopped,     \* the loop has met a page that ends it: a non-200 reply or an empty page
    p_status,      \* the status code of the call's reply, 0 while it runs
    \* ---- tag lists of the dashboard (SpecTags): st.session_state of app.py ----
    services_tags,   \* st.session_state.services_tags
    locations_tags,  \* st.session_state.locations_tags
    k_call,          \* the last call: function, tag_type, argument
    \* ---- gap topic parsing (SpecTopic): generate_article_from_gap ----
    g_pc,        \* "input" | "done"
    g_service,   \* the service of the gap
    g_location,  \* the location of the gap
    gap_topic,   \* the gap text handed to generate_article_from_gap
    g_parsed     \* the service and the city the function writes about

nvars == <<n_pc, n_url, n_slug, n_slug_api, n_text>>
mvars == <<m_pc, m_service, m_location, m_url, m_result, m_api>>
ovars == <<o_pc, o_service, o_location, o_url, o_transport, o_body, o_result>>
tvars == <<t_pc, t_service, t_location, t_slug, t_exact, t_token, t_regex, t_fuzzy>>

dvars == <<pc, entry, services, locations, sitemap_urls, si, li, ui, found_match,
           gaps, matches, tested, error, session_research_gaps, db_research_gaps>>

avars == <<wordpress_service, articles, wp_posts, wp_next_id, http_response, http_body>>

pvars == <<p_pc, fetch_all, current_page, all_posts, p_requests, p_stopped, p_status>>
kvars == <<services_tags, locations_tags, k_call>>
gvars == <<g_pc, g_service, g_location, gap_topic, g_parsed>>

vars == <<n_pc, n_url, n_slug, n_slug_api, n_text,
          m_pc, m_service, m_location, m_url, m_result, m_api,
          o_pc, o_service, o_location, o_url, o_transport, o_body, o_result,
          t_pc, t_service, t_location, t_slug, t_exact, t_token, t_regex, t_fuzzy,
          pc, entry, services, locations, sitemap_urls, si, li, ui, found_match,
          gaps, matches, tested, error, session_research_gaps, db_research_gaps,
          wordpress_service, articles, wp_posts, wp_next_id, http_response, http_body,
          p_pc, fetch_all, current_page, all_posts, p_requests, p_stopped, p_status,
          services_tags, locations_tags, k_call,
          g_pc, g_service, g_location, gap_topic, g_parsed>>

-----------------------------------------------------------------------------
(* Bounds *)

\* longest raw URL, in characters, given to the normalizer harness
MaxUrlLen == 4

\* most words in the slug of a URL given to the match-strategy harness
MaxSlugWords == 3

\* most pieces (words, blanks, line breaks) in an oracle reply
MaxReplyPieces == 3

\* most services in the list given to a detector run
MaxServices == 2

\* most posts the WordPress site is asked to create
MaxPosts == 2

\* most tags in a tag list of the dashboard
MaxTags == 3

\* most words in a service or a location of a gap topic
MaxTopicWords == 3

-----------------------------------------------------------------------------
(* Characters and Python's str primitives *)

LowerLetters == <<"a","b","c","d","e","f","g","h","i","j","k","l","m",
                  "n","o","p","q","r","s","t","u","v","w","x","y","z">>
UpperLetters == <<"A","B","C","D","E","F","G","H","I","J","K","L","M",
                  "N","O","P","Q","R","S","T","U","V","W","X","Y","Z">>
Digits == {"0","1","2","3","4","5","6","7","8","9"}

Range(s) == {s[i] : i \in 1..Len(s)}

\* \s of the re module and the characters str.strip() removes
IsSpace(c) == c \in {" ", "\t", "\n"}

\* the characters \w of the re module matches: letters, digits and the underscore
WordChars == Range(LowerLetters) \cup Range(UpperLetters) \cup Digits \cup {"_"}

\* \w of the re module
IsWord(c) == c \in WordChars

\* the capital letters
UpperChars == Range(UpperLetters)

\* str.lower() on one character
LowerChar(c) ==
    IF c \in UpperChars
    THEN LowerLetters[CHOOSE i \in 1..26 : UpperLetters[i] = c]
    ELSE c

\* str.lower()
Lower(s) == [i \in 1..Len(s) |-> LowerChar(s[i])]

\* str.endswith(c) for a one-character suffix
EndsWith(s, c) == Len(s) > 0 /\ s[Len(s)] = c

\* str.strip()
Strip(s) ==
    LET keep == {i \in 1..Len(s) : ~IsSpace(s[i])}
    IN  IF keep = {} THEN <<>>
        ELSE LET lo == CHOOSE i \in keep : \A j \in keep : i <= j
                 hi == CHOOSE i \in keep : \A j \in keep : i >= j
             IN  SubSeq(s, lo, hi)

\* str.split(sep) for a one-character separator: always at least one part
RECURSIVE Split(_, _)
Split(s, sep) ==
    LET hits == {i \in 1..Len(s) : s[i] = sep}
    IN  IF hits = {} THEN <<s>>
        ELSE LET i == CHOOSE k \in hits : \A j \in hits : k <= j
             IN  <<SubSeq(s, 1, i - 1)>> \o Split(SubSeq(s, i + 1, Len(s)), sep)

\* re.sub(r'[_-]', ' ', s)
DashesToSpaces(s) == [i \in 1..Len(s) |-> IF s[i] \in {"_", "-"} THEN " " ELSE s[i]]

KeepChar(c) == IsWord(c) \/ IsSpace(c)

\* re.sub(r'[^\w\s]', '', s)
DropSpecial(s) == SelectSeq(s, KeepChar)

\* CleanSlug without the final strip()
mut_CleanSlug(slug) == Lower(DropSpecial(DashesToSpaces(slug)))

\* CleanSlug that trims before it drops the special characters
mut_CleanSlug_strip_first(slug) == Lower(DropSpecial(Strip(DashesToSpaces(slug))))

\* CleanSlug that only lower-cases and trims
mut_CleanSlug_raw(slug) == Strip(Lower(slug))

\* the cleaning steps shared by both normalizers
CleanSlug(slug) == Strip(Lower(DropSpecial(DashesToSpaces(slug))))

\* x in s for strings: s contains x as a contiguous substring
Contains(s, x) ==
    \E i \in 0..(Len(s) - Len(x)) : SubSeq(s, i + 1, i + Len(x)) = x

-----------------------------------------------------------------------------
(* Slug normalizers *)

\* normalize_url that leaves the trailing '/' in place
mut_normalize_url(url) ==
    LET parts == Split(url, "/")
        n     == Len(parts)
        slug  == IF n > 1
                 THEN (IF parts[n] # <<>> THEN parts[n] ELSE parts[n - 1])
                 ELSE url
    IN  CleanSlug(slug)

\* normalize_url of test_research_gaps_no_llm.py
normalize_url(url) ==
    LET u     == IF EndsWith(url, "/") THEN SubSeq(url, 1, Len(url) - 1) ELSE url
        parts == Split(u, "/")
        n     == Len(parts)
        slug  == IF n > 1
                 THEN (IF parts[n] # <<>> THEN parts[n] ELSE parts[n - 1])
                 ELSE u
    IN  CleanSlug(slug)

\* normalize_url of src/src/api.py
api_normalize_url(url) ==
    LET u     == IF EndsWith(url, "/") THEN SubSeq(url, 1, Len(url) - 1) ELSE url
        parts == Split(u, "/")
        n     == Len(parts)
        slug  == IF parts[n] # <<>> THEN parts[n]
                 ELSE IF n > 1 THEN parts[n - 1] ELSE u
    IN  CleanSlug(slug)

\* what an operator returns in place of a string when the Python code raises
\* IndexError (a list index out of range); no string equals it
IndexError == <<"IndexError">>

\* parts[-k] of a Python list
PyIndexFromEnd(parts, k) ==
    IF k <= Len(parts) THEN parts[Len(parts) - k + 1] ELSE IndexError

\* normalize_text of app.py and main.py
normalize_text(text) ==
    LET parts == Split(text, "/")
        seg   == IF EndsWith(text, "/") THEN PyIndexFromEnd(parts, 2)
                 ELSE PyIndexFromEnd(parts, 1)
    IN  IF seg = IndexError THEN IndexError ELSE CleanSlug(seg)

-----------------------------------------------------------------------------
(* Match strategies *)

\* f"{service} in {location}"
Combination(service, location) == service \o <<" ", "i", "n", " ">> \o location

\* str.split() without arguments: the maximal runs of non-space characters
Tokens(s) ==
    LET starts == {i \in 1..Len(s) : ~IsSpace(s[i]) /\ (i = 1 \/ IsSpace(s[i - 1]))}
        end(i) == CHOOSE j \in i..Len(s) :
                      /\ j = Len(s) \/ IsSpace(s[j + 1])
                      /\ \A k \in i..j : ~IsSpace(s[k])
    IN  {SubSeq(s, i, end(i)) : i \in starts}

\* exact_phrase_match that looks for the phrase as it was typed
mut_exact_phrase_match(service, location, url_slug) ==
    Contains(Lower(url_slug), Combination(service, location))

\* exact_phrase_match (test_research_gaps_no_llm.py and api.py)
exact_phrase_match(service, location, url_slug) ==
    Contains(Lower(url_slug), Lower(Combination(service, location)))

\* token_based_match with a substring test in place of the token test
mut_token_based_match(service, location, url_slug) ==
    Contains(Lower(url_slug), Lower(service)) /\ Contains(Lower(url_slug), Lower(location))

\* token_based_match that looks for the terms as they were typed
mut_token_based_match_cased(service, location, url_slug) ==
    LET tokens == Tokens(Lower(url_slug))
    IN  service \in tokens /\ location \in tokens

\* token_based_match
token_based_match(service, location, url_slug) ==
    LET tokens == Tokens(Lower(url_slug))
    IN  Lower(service) \in tokens /\ Lower(location) \in tokens

\* \b of the re module at the gap after the first p characters of s
WordBoundary(s, p) ==
    LET w(k) == k \in 1..Len(s) /\ IsWord(s[k])
    IN  w(p) # w(p + 1)

\* x occurs in s right after the first i characters
OccursAt(s, x, i) ==
    i >= 0 /\ i + Len(x) <= Len(s) /\ SubSeq(s, i + 1, i + Len(x)) = x

\* regex_pattern_match that accepts the two terms in either order
mut_regex_pattern_match(service, location, url_slug) ==
    LET s   == Lower(url_slug)
        svc == Lower(service)
        loc == Lower(location)
    IN  /\ \E i \in 0..Len(s) :
            OccursAt(s, svc, i) /\ WordBoundary(s, i) /\ WordBoundary(s, i + Len(svc))
        /\ \E j \in 0..Len(s) :
            OccursAt(s, loc, j) /\ WordBoundary(s, j) /\ WordBoundary(s, j + Len(loc))

\* regex_pattern_match: re.search(r'\b<service>\b.*\b<location>\b', slug),
\* both terms escaped and lower-cased; '.' does not match a newline
regex_pattern_match(service, location, url_slug) ==
    LET s   == Lower(url_slug)
        svc == Lower(service)
        loc == Lower(location)
    IN  \E i \in 0..Len(s) :
            /\ OccursAt(s, svc, i)
            /\ WordBoundary(s, i)
            /\ WordBoundary(s, i + Len(svc))
            /\ \E j \in (i + Len(svc))..Len(s) :
                  /\ OccursAt(s, loc, j)
                  /\ WordBoundary(s, j)
                  /\ WordBoundary(s, j + Len(loc))
                  /\ \A k \in (i + Len(svc) + 1)..j : s[k] # "\n"

\* length of the common run of a[i..ahi] and b[j..bhi] (1-based, inclusive)
RECURSIVE RunLength(_, _, _, _, _, _)
RunLength(a, b, i, ahi, j, bhi) ==
    IF i <= ahi /\ j <= bhi /\ a[i] = b[j]
    THEN 1 + RunLength(a, b, i + 1, ahi, j + 1, bhi)
    ELSE 0

\* SequenceMatcher.find_longest_match(alo, ahi, blo, bhi) without junk: the
\* longest block, the earliest in a among those, then the earliest in b
find_longest_match(a, b, alo, ahi, blo, bhi) ==
    LET cand == {<<i, j>> \in (alo..ahi) \X (blo..bhi) : a[i] = b[j]}
        size(p) == RunLength(a, b, p[1], ahi, p[2], bhi)
    IN  IF cand = {} THEN <<alo, blo, 0>>
        ELSE LET best == CHOOSE p \in cand :
                     \A q \in cand :
                        \/ size(p) > size(q)
                        \/ /\ size(p) = size(q)
                           /\ (p[1] < q[1] \/ (p[1] = q[1] /\ p[2] <= q[2]))
             IN  <<best[1], best[2], size(best)>>

\* total size of SequenceMatcher.get_matching_blocks() within the two windows
RECURSIVE MatchedChars(_, _, _, _, _, _)
MatchedChars(a, b, alo, ahi, blo, bhi) ==
    IF alo > ahi \/ blo > bhi THEN 0
    ELSE LET m == find_longest_match(a, b, alo, ahi, blo, bhi)
         IN  IF m[3] = 0 THEN 0
             ELSE m[3]
                  + MatchedChars(a, b, alo, m[1] - 1, blo, m[2] - 1)
                  + MatchedChars(a, b, m[1] + m[3], ahi, m[2] + m[3], bhi)

\* SequenceMatcher(None, a, b).ratio() >= num / den, with
\* ratio = 2 * matches / (len(a) + len(b)), and 1.0 for two empty strings
RatioAtLeast(a, b, num, den) ==
    LET total == Len(a) + Len(b)
        m     == MatchedChars(a, b, 1, Len(a), 1, Len(b))
    IN  IF total = 0 THEN num <= den
        ELSE 2 * m * den >= num * total

\* the threshold comprehensive_match passes to fuzzy_similarity_match: 0.8
FuzzyThresholdNum == 8
FuzzyThresholdDen == 10

\* fuzzy_similarity_match without the test that the service is in the slug
mut_fuzzy_similarity_match(service, location, url_slug, num, den) ==
    RatioAtLeast(Lower(Combination(service, location)), Lower(url_slug), num, den)

\* fuzzy_similarity_match(service, location, url_slug, threshold=num/den)
fuzzy_similarity_match(service, location, url_slug, num, den) ==
    IF ~Contains(Lower(url_slug), Lower(service)) THEN FALSE
    ELSE RatioAtLeast(Lower(Combination(service, location)), Lower(url_slug), num, den)

\* comprehensive_match with the token test tried before the exact-phrase test
mut_comprehensive_match(service, location, url) ==
    LET url_slug == normalize_url(url)
    IN  IF token_based_match(service, location, url_slug)
        THEN [is_match |-> TRUE, method |-> "token_based"]
        ELSE IF exact_phrase_match(service, location, url_slug)
        THEN [is_match |-> TRUE, method |-> "exact_phrase"]
        ELSE IF regex_pattern_match(service, location, url_slug)
        THEN [is_match |-> TRUE, method |-> "regex_pattern"]
        ELSE IF fuzzy_similarity_match(service, location, url_slug,
                                       FuzzyThresholdNum, FuzzyThresholdDen)
        THEN [is_match |-> TRUE, method |-> "fuzzy_similarity"]
        ELSE [is_match |-> FALSE, method |-> "no_match"]

\* comprehensive_match of test_research_gaps_no_llm.py
comprehensive_match(service, location, url) ==
    LET url_slug == normalize_url(url)
    IN  IF exact_phrase_match(service, location, url_slug)
        THEN [is_match |-> TRUE, method |-> "exact_phrase"]
        ELSE IF token_based_match(service, location, url_slug)
        THEN [is_match |-> TRUE, method |-> "token_based"]
        ELSE IF regex_pattern_match(service, location, url_slug)
        THEN [is_match |-> TRUE, method |-> "regex_pattern"]
        ELSE IF fuzzy_similarity_match(service, location, url_slug,
                                       FuzzyThresholdNum, FuzzyThresholdDen)
        THEN [is_match |-> TRUE, method |-> "fuzzy_similarity"]
        ELSE [is_match |-> FALSE, method |-> "no_match"]

\* comprehensive_match of src/src/api.py
api_comprehensive_match(service, location, url) ==
    LET url_slug == api_normalize_url(url)
        tokens   == Tokens(url_slug)
    IN  IF exact_phrase_match(service, location, url_slug)
        THEN [is_match |-> TRUE, method |-> "exact_phrase"]
        ELSE IF Lower(service) \in tokens /\ Lower(location) \in tokens
        THEN [is_match |-> TRUE, method |-> "token_based"]
        ELSE IF Contains(url_slug, Lower(service)) /\ Contains(url_slug, Lower(location))
        THEN [is_match |-> TRUE, method |-> "contains_both"]
        ELSE [is_match |-> FALSE, method |-> "no_match"]

-----------------------------------------------------------------------------
(* Oracle adapter and the strict exact + oracle matcher *)

\* Python's None, where a string was expected; no string equals it
None == <<"None">>

\* the ways one requests.post round trip to the oracle can end:
\*   exception  requests.post raises (connection refused, timeout)
\*   status     the status code is not 200
\*   not_json   response.json() raises
\*   no_field   the payload has no 'response' key
\*   ok         the payload carries a 'response' text
Transports == {"exception", "status", "not_json", "no_field", "ok"}

\* query_ollama without the status-code test
mut_query_ollama(transport, body) ==
    IF transport \in {"ok", "status"} THEN body ELSE None

\* query_ollama of app.py and main.py: the 'response' text, or None
query_ollama(transport, body) ==
    IF transport = "ok" THEN body ELSE None

\* str.splitlines() for "\n" line breaks: no trailing empty line, [] for ""
splitlines(s) ==
    IF s = <<>> THEN <<>>
    ELSE LET parts == Split(s, "\n")
         IN  IF parts[Len(parts)] = <<>> THEN SubSeq(parts, 1, Len(parts) - 1)
             ELSE parts

Yes == <<"y", "e", "s">>

\* check_match that asks the oracle first and tests the phrase afterwards
mut_check_match(service, location, url, transport, body) ==
    LET slug     == normalize_text(url)
        combo    == Lower(Combination(service, location))
        response == query_ollama(transport, body)
    IN  IF response # None /\ response # <<>> /\ Strip(response) # <<>>
           /\ Lower(splitlines(Strip(response))[Len(splitlines(Strip(response)))]) = Yes
        THEN [value |-> TRUE, raised |-> FALSE, queried |-> TRUE]
        ELSE [value |-> Contains(slug, combo), raised |-> FALSE, queried |-> TRUE]

\* check_match of app.py and main.py.  value: the boolean returned; raised: the
\* call ended in IndexError instead; queried: query_ollama was called
check_match(service, location, url, transport, body) ==
    LET slug  == normalize_text(url)
        combo == Lower(Combination(service, location))
    IN  IF Contains(slug, combo)
        THEN [value |-> TRUE, raised |-> FALSE, queried |-> FALSE]
        ELSE LET response == query_ollama(transport, body)
             IN  IF response = None \/ response = <<>>
                 THEN [value |-> FALSE, raised |-> FALSE, queried |-> TRUE]
                 ELSE LET lines == splitlines(Strip(response))
                      IN  IF lines = <<>>
                          THEN [value |-> FALSE, raised |-> TRUE, queried |-> TRUE]
                          ELSE [value   |-> Lower(lines[Len(lines)]) = Yes,
                                raised  |-> FALSE,
                                queried |-> TRUE]

-----------------------------------------------------------------------------
(* Normalizer harness: every URL string over NormAlphabet up to MaxUrlLen *)

NormAlphabet == {"a", "B", "/", "-", "_", ".", " "}

RECURSIVE StringsUpTo(_, _)
StringsUpTo(alphabet, n) ==
    IF n = 0 THEN {<<>>}
    ELSE LET shorter == StringsUpTo(alphabet, n - 1)
         IN  shorter \cup {Append(s, c) : s \in {t \in shorter : Len(t) = n - 1}, c \in alphabet}

NormUrls == StringsUpTo(NormAlphabet, MaxUrlLen)

NormIdle ==
    /\ n_pc = "off" /\ n_url = <<>> /\ n_slug = <<>> /\ n_slug_api = <<>> /\ n_text = <<>>

MatchIdle ==
    /\ m_pc = "off" /\ m_service = <<>> /\ m_location = <<>> /\ m_url = <<>>
    /\ m_result = <<>> /\ m_api = <<>>

OracleIdle ==
    /\ o_pc = "off" /\ o_service = <<>> /\ o_location = <<>> /\ o_url = <<>>
    /\ o_transport = "ok" /\ o_body = <<>> /\ o_result = <<>>

StrategyIdle ==
    /\ t_pc = "off" /\ t_service = <<>> /\ t_location = <<>> /\ t_slug = <<>>
    /\ t_exact = FALSE /\ t_token = FALSE /\ t_regex = FALSE /\ t_fuzzy = FALSE

ArticlesIdle ==
    /\ wordpress_service = None /\ articles = <<>> /\ wp_posts = <<>>
    /\ wp_next_id = 1 /\ http_response = <<>> /\ http_body = <<>>

PostsIdle ==
    /\ p_pc = "off" /\ fetch_all = FALSE /\ current_page = 0 /\ all_posts = 0
    /\ p_requests = 0 /\ p_stopped = FALSE /\ p_status = 0

TagsIdle ==
    /\ services_tags = <<>> /\ locations_tags = <<>> /\ k_call = <<>>

TopicIdle ==
    /\ g_pc = "off" /\ g_service = <<>> /\ g_location = <<>> /\ gap_topic = <<>>
    /\ g_parsed = <<>>

DetectorIdle ==
    /\ pc = "off" /\ entry = "" /\ services = <<>> /\ locations = <<>>
    /\ sitemap_urls = <<>> /\ si = 1 /\ li = 1 /\ ui = 1 /\ found_match = FALSE
    /\ gaps = <<>> /\ matches = <<>> /\ tested = <<>> /\ error = ""
    /\ session_research_gaps = <<>> /\ db_research_gaps = <<>>

NormInit ==
    /\ n_pc = "input"
    /\ n_url \in NormUrls
    /\ n_slug = <<>>
    /\ n_slug_api = <<>>
    /\ n_text = <<>>
    /\ MatchIdle
    /\ OracleIdle
    /\ StrategyIdle
    /\ ArticlesIdle
    /\ DetectorIdle
    /\ PostsIdle
    /\ TagsIdle
    /\ TopicIdle

Normalize ==
    /\ n_pc = "input"
    /\ n_pc' = "done"
    /\ n_slug' = normalize_url(n_url)
    /\ n_slug_api' = api_normalize_url(n_url)
    /\ n_text' = normalize_text(n_url)
    /\ UNCHANGED n_url
    /\ UNCHANGED <<mvars, ovars, tvars, dvars, avars, pvars, kvars, gvars>>

NormNext == Normalize

SpecNorm == NormInit /\ [][NormNext]_vars

-----------------------------------------------------------------------------
(* Match-strategy harness: comprehensive_match on every (service, location, *)
(* url) of the pools below                                                  *)

\* besides plain services: one in capitals, one of two words, and three that
\* hold a hyphen, an underscore, a full stop
ServicePool == {<<"a">>, <<"A">>, <<"a", " ", "x">>,
                <<"a", "-", "b">>, <<"a", "_", "b">>, <<"a", ".", "b">>}
LocationPool == {<<"b">>, <<"B">>}

\* the words a URL's last path segment is made of
SlugWords == {<<"a">>, <<"b">>, <<"i", "n">>, <<"x">>, <<"a", "b">>, <<"i", "n", "b">>}

\* the words joined by sep
RECURSIVE Join(_, _)
Join(words, sep) ==
    IF Len(words) = 0 THEN <<>>
    ELSE IF Len(words) = 1 THEN words[1]
    ELSE words[1] \o sep \o Join(Tail(words), sep)

RECURSIVE WordLists(_)
WordLists(n) ==
    IF n = 0 THEN {<<>>}
    ELSE LET shorter == WordLists(n - 1)
         IN  shorter \cup {Append(ws, w) : ws \in {t \in shorter : Len(t) = n - 1},
                                             w \in SlugWords}

\* each word list in three URL shapes: a bare hyphenated slug, a path with
\* underscores and one trailing slash, a hyphenated slug with two trailing slashes
MatchUrls ==
    UNION {{Join(ws, <<"-">>),
            <<"x", "/">> \o Join(ws, <<"_">>) \o <<"/">>,
            Join(ws, <<"-">>) \o <<"/", "/">>} : ws \in WordLists(MaxSlugWords) \ {<<>>}}

MatchInit ==
    /\ m_pc = "input"
    /\ m_service \in ServicePool
    /\ m_location \in LocationPool
    /\ m_url \in MatchUrls
    /\ m_result = <<>>
    /\ m_api = <<>>
    /\ NormIdle
    /\ OracleIdle
    /\ StrategyIdle
    /\ ArticlesIdle
    /\ DetectorIdle
    /\ PostsIdle
    /\ TagsIdle
    /\ TopicIdle

Match ==
    /\ m_pc = "input"
    /\ m_pc' = "done"
    /\ m_result' = comprehensive_match(m_service, m_location, m_url)
    /\ m_api' = api_comprehensive_match(m_service, m_location, m_url)
    /\ UNCHANGED <<m_service, m_location, m_url>>
    /\ UNCHANGED <<nvars, ovars, tvars, dvars, avars, pvars, kvars, gvars>>

MatchNext == Match

SpecMatch == MatchInit /\ [][MatchNext]_vars

-----------------------------------------------------------------------------
(* Single-strategy harness: each of the four strategies on every (service, *)
(* location, slug) of the pools below; the slug is given as it is, so it   *)
(* may hold capitals and leading, trailing or doubled blanks               *)

StrategyServices == {<<"a">>, <<"A">>, <<"a", " ", "x">>}
StrategyLocations == {<<"b">>, <<"B">>}

\* the words of a slug; the empty word gives leading, trailing and doubled
\* blanks, the line break a slug of several lines
StrategyWords == SlugWords \cup {<<"B">>, <<>>, <<"\n">>}

RECURSIVE StrategyWordLists(_)
StrategyWordLists(n) ==
    IF n = 0 THEN {<<>>}
    ELSE LET shorter == StrategyWordLists(n - 1)
         IN  shorter \cup {Append(ws, w) : ws \in {t \in shorter : Len(t) = n - 1},
                                             w \in StrategyWords}

StrategySlugs == {Join(ws, <<" ">>) : ws \in StrategyWordLists(MaxSlugWords)}

StrategyInit ==
    /\ t_pc = "input"
    /\ t_service \in StrategyServices
    /\ t_location \in StrategyLocations
    /\ t_slug \in StrategySlugs
    /\ t_exact = FALSE /\ t_token = FALSE /\ t_regex = FALSE /\ t_fuzzy = FALSE
    /\ NormIdle
    /\ MatchIdle
    /\ OracleIdle
    /\ DetectorIdle
    /\ ArticlesIdle
    /\ PostsIdle
    /\ TagsIdle
    /\ TopicIdle

RunStrategies ==
    /\ t_pc = "input"
    /\ t_pc' = "done"
    /\ t_exact' = exact_phrase_match(t_service, t_location, t_slug)
    /\ t_token' = token_based_match(t_service, t_location, t_slug)
    /\ t_regex' = regex_pattern_match(t_service, t_location, t_slug)
    /\ t_fuzzy' = fuzzy_similarity_match(t_service, t_location, t_slug,
                                         FuzzyThresholdNum, FuzzyThresholdDen)
    /\ UNCHANGED <<t_service, t_location, t_slug>>
    /\ UNCHANGED <<nvars, mvars, ovars, dvars, avars, pvars, kvars, gvars>>

StrategyNext == RunStrategies

SpecStrategy == StrategyInit /\ [][StrategyNext]_vars

-----------------------------------------------------------------------------
(* Oracle harness: one check_match call for every way the round trip can   *)
(* end and every reply text made of ReplyPieces                            *)

ReplyPieces == {<<"y", "e", "s">>, <<"Y", "e", "s">>, <<"n", "o">>, <<" ">>, <<"\n">>, <<".">>}

RECURSIVE Flatten(_)
Flatten(pieces) ==
    IF Len(pieces) = 0 THEN <<>> ELSE pieces[1] \o Flatten(Tail(pieces))

RECURSIVE PieceLists(_)
PieceLists(n) ==
    IF n = 0 THEN {<<>>}
    ELSE LET shorter == PieceLists(n - 1)
         IN  shorter \cup {Append(ps, p) : ps \in {t \in shorter : Len(t) = n - 1},
                                             p \in ReplyPieces}

Replies == {Flatten(ps) : ps \in PieceLists(MaxReplyPieces)}

\* a slug with the exact phrase, one with both words as tokens only, one with neither
OracleUrls == {<<"a", "-", "i", "n", "-", "b">>, <<"a", "-", "b", "/">>, <<"x">>}

OracleInit ==
    /\ o_pc = "input"
    /\ o_service = <<"a">>
    /\ o_location = <<"B">>
    /\ o_url \in OracleUrls
    /\ o_transport \in Transports
    /\ o_body \in Replies
    /\ (o_transport # "ok" => o_body = <<>>)
    /\ o_result = <<>>
    /\ NormIdle
    /\ MatchIdle
    /\ StrategyIdle
    /\ ArticlesIdle
    /\ DetectorIdle
    /\ PostsIdle
    /\ TagsIdle
    /\ TopicIdle

CheckMatch ==
    /\ o_pc = "input"
    /\ o_pc' = "done"
    /\ o_result' = check_match(o_service, o_location, o_url, o_transport, o_body)
    /\ UNCHANGED <<o_service, o_location, o_url, o_transport, o_body>>
    /\ UNCHANGED <<nvars, mvars, tvars, dvars, avars, pvars, kvars, gvars>>

OracleNext == CheckMatch

SpecOracle == OracleInit /\ [][OracleNext]_vars

-----------------------------------------------------------------------------
(* Gap detector: find_research_gaps_no_llm (test_research_gaps_no_llm.py), *)
(* analyze_research_gaps (api.py) and find_research_gaps_logic (app.py)    *)

EntryPoints == {"no_llm", "api", "logic"}

DetServicePool == {<<"a">>, <<"x">>}

RECURSIVE ListsUpTo(_, _)
ListsUpTo(pool, n) ==
    IF n = 0 THEN {<<>>}
    ELSE LET shorter == ListsUpTo(pool, n - 1)
         IN  shorter \cup {Append(l, e) : l \in {t \in shorter : Len(t) = n - 1}, e \in pool}

ServiceLists == ListsUpTo(DetServicePool, MaxServices)

\* besides plain lists: a location in capitals and one with a trailing blank
LocationLists == {<<>>, << <<"b">> >>, << <<"b">>, <<"x">> >>, << <<"b">>, <<"b">> >>,
                  << <<"B">> >>, << <<"b", " ">> >>}

\* slugs "a in b" (the exact phrase), "a b" (both words as tokens) and
\* "ab" (both words inside one longer token)
UrlAinB == <<"a", "-", "i", "n", "-", "b">>
UrlAB   == <<"x", "/", "a", "_", "b", "/">>
UrlAb   == <<"a", "b">>

\* the lists load_sitemap_urls can return (all shorter than its limit of 10 or 50)
UrlLists == {<<>>, <<UrlAinB>>, <<UrlAB>>, <<UrlAb>>,
             <<UrlAB, UrlAinB>>, <<UrlAb, UrlAB>>, <<UrlAinB, UrlAinB>>}

\* the oracle round trips a strict run can meet: <<transport, body>>.  Of the
\* round trips query_ollama answers with None, the raised request and the bad
\* status are kept here; SpecOracle goes through all of Transports
OracleOutcomes ==
    {<<"exception", <<>>>>, <<"status", Yes>>,
     <<"ok", Yes>>, <<"ok", <<"n", "o">>>>, <<"ok", <<"\n">>>>}

\* what an earlier run with services ["x"] and locations ["x"] left behind: in
\* the session of app.py, and in the research_gaps table of api.py
EarlierSessionGaps == << <<"x", " ", "i", "n", " ", "x">> >>
EarlierRows ==
    << [id |-> 0, service |-> <<"x">>, location |-> <<"x">>,
        combination |-> <<"x", " ", "i", "n", " ", "x">>] >>

\* before a run: nothing stored yet (session_state.research_gaps = [], the
\* table as init_db creates it), or the gaps of an earlier run
DetInit ==
    /\ pc = "idle" /\ entry = "" /\ services = <<>> /\ locations = <<>>
    /\ sitemap_urls = <<>> /\ si = 1 /\ li = 1 /\ ui = 1 /\ found_match = FALSE
    /\ gaps = <<>> /\ matches = <<>> /\ tested = <<>> /\ error = ""
    /\ \/ session_research_gaps = <<>> /\ db_research_gaps = <<>>
       \/ session_research_gaps = EarlierSessionGaps /\ db_research_gaps = EarlierRows
    /\ NormIdle
    /\ MatchIdle
    /\ OracleIdle
    /\ StrategyIdle
    /\ ArticlesIdle
    /\ PostsIdle
    /\ TagsIdle
    /\ TopicIdle

\* the input checks without the test of the services and locations of a request
mut_InputError(e, svcs, locs, urls) ==
    IF e = "api" /\ urls = <<>> THEN "No sitemap URLs found"
    ELSE IF e = "no_llm" /\ urls = <<>> THEN "No URLs found"
    ELSE IF e = "logic" /\ urls = <<>> THEN "No URLs found in sitemap_urls.json"
    ELSE ""

\* the input checks each entry point makes before its loops: "" when it goes on
InputError(e, svcs, locs, urls) ==
    IF e = "api" /\ (svcs = <<>> \/ locs = <<>>)
    THEN "Services and locations are required"
    ELSE IF e = "api" /\ urls = <<>> THEN "No sitemap URLs found"
    ELSE IF e = "no_llm" /\ urls = <<>> THEN "No URLs found"
    ELSE IF e = "logic" /\ urls = <<>> THEN "No URLs found in sitemap_urls.json"
    ELSE ""

StripEach(items) == [i \in 1..Len(items) |-> Strip(items[i])]

IsFilled(item) == item # <<>>

\* the list an entry point hands to its loops.  The page of app.py reaches
\* find_research_gaps_logic through find_research_gaps, which strips every
\* item and drops the empty ones, or through the tags, which add_tag receives
\* stripped; find_research_gaps_no_llm and /research-gaps/analyze take the
\* list as it is given
EntryList(e, items) ==
    IF e = "logic" THEN SelectSeq(StripEach(items), IsFilled) ELSE items

\* an entry point is called: its input checks, then the top of its loops
StartRun ==
    /\ pc = "idle"
    /\ \E e \in EntryPoints, svcs \in ServiceLists, locs \in LocationLists, urls \in UrlLists :
        /\ entry' = e
        /\ services' = EntryList(e, svcs)
        /\ locations' = EntryList(e, locs)
        /\ sitemap_urls' = urls
        /\ error' = InputError(e, services', locations', urls)
        /\ pc' = IF error' # "" THEN "error"
                 ELSE IF services' = <<>> \/ locations' = <<>> THEN "finish"
                 ELSE "scan"
    /\ si' = 1 /\ li' = 1 /\ ui' = 1
    /\ found_match' = FALSE
    /\ gaps' = <<>>
    /\ matches' = <<>>
    /\ tested' = <<>>
    /\ UNCHANGED <<session_research_gaps, db_research_gaps>>
    /\ UNCHANGED <<nvars, mvars, ovars, tvars, avars, pvars, kvars, gvars>>

\* the record an entry point writes into matches for a matching URL
MatchEntry(e, url, method) ==
    IF e = "logic" THEN [url |-> url] ELSE [url |-> url, method |-> method]

\* dict assignment d[k] = v
DictPut(d, k, v) == [x \in (DOMAIN d) \cup {k} |-> IF x = k THEN v ELSE d[x]]

\* the URL loop without its break
mut_UrlLoopExit(is_match, u, n) == u >= n

\* the URL loop is left after this pass: break on a match, or no URL is left
UrlLoopExit(is_match, u, n) == is_match \/ u >= n

\* one pass of the URL loop: the pipeline of the entry point on the current
\* (service, location, url); r is the pipeline's answer
AfterTest(r) ==
    LET service     == services[si]
        location    == locations[li]
        url         == sitemap_urls[ui]
        combination == Combination(service, location)
    IN  /\ tested' = Append(tested, [url |-> ui] @@ r)
        /\ IF r.raised
           THEN /\ pc' = "raised"
                /\ UNCHANGED <<ui, found_match, matches>>
           ELSE /\ IF r.is_match
                   THEN /\ found_match' = TRUE
                        /\ matches' = DictPut(matches, combination,
                                              MatchEntry(entry, url, r.method))
                   ELSE UNCHANGED <<found_match, matches>>
                /\ IF UrlLoopExit(r.is_match, ui, Len(sitemap_urls))
                   THEN ui' = ui /\ pc' = "close"
                   ELSE ui' = ui + 1 /\ pc' = "scan"
        /\ UNCHANGED <<entry, services, locations, sitemap_urls, si, li, gaps, error,
                       session_research_gaps, db_research_gaps>>

\* the answer of a four-strategy pipeline in the shape AfterTest reads
Comprehensive(m) ==
    [is_match |-> m.is_match, method |-> m.method, raised |-> FALSE,
     queried |-> FALSE, transport |-> "", body |-> <<>>]

\* the answer of check_match in the shape AfterTest reads, with the oracle
\* round trip it met when it asked
Strict(c, transport, body) ==
    [is_match |-> c.value, method |-> "", raised |-> c.raised,
     queried |-> c.queried,
     transport |-> IF c.queried THEN transport ELSE "",
     body |-> IF c.queried THEN body ELSE <<>>]

TestUrl ==
    /\ pc = "scan"
    /\ \/ /\ entry = "no_llm"
          /\ AfterTest(Comprehensive(
                 comprehensive_match(services[si], locations[li], sitemap_urls[ui])))
       \/ /\ entry = "api"
          /\ AfterTest(Comprehensive(
                 api_comprehensive_match(services[si], locations[li], sitemap_urls[ui])))
       \/ /\ entry = "logic"
          /\ \E o \in OracleOutcomes :
                AfterTest(Strict(
                    check_match(services[si], locations[li], sitemap_urls[ui], o[1], o[2]),
                    o[1], o[2]))
    /\ UNCHANGED <<nvars, mvars, ovars, tvars, avars, pvars, kvars, gvars>>

\* GapEntry with an id that does not count the gaps found so far
mut_GapEntry(e, service, location, n) ==
    IF e = "api"
    THEN [id |-> 0, service |-> service, location |-> location,
          combination |-> Combination(service, location)]
    ELSE Combination(service, location)

\* what an entry point appends to gaps for an unmatched combination; the id of
\* api.py is "gap-<timestamp>_<len(gaps)>", of which the model keeps len(gaps)
GapEntry(e, service, location, n) ==
    IF e = "api"
    THEN [id |-> n, service |-> service, location |-> location,
          combination |-> Combination(service, location)]
    ELSE Combination(service, location)

\* gaps.append(gap) with the new gap put in front
mut_RecordGap(gs, g) == <<g>> \o gs

\* gaps.append(gap)
RecordGap(gs, g) == Append(gs, g)

\* after the URL loop: the gap is recorded, the loops move to the next combination
EndCombination ==
    /\ pc = "close"
    /\ gaps' = IF found_match THEN gaps
               ELSE RecordGap(gaps, GapEntry(entry, services[si], locations[li], Len(gaps)))
    /\ IF li < Len(locations)
       THEN si' = si /\ li' = li + 1 /\ pc' = "scan"
       ELSE IF si < Len(services)
       THEN si' = si + 1 /\ li' = 1 /\ pc' = "scan"
       ELSE si' = si + 1 /\ li' = 1 /\ pc' = "finish"
    /\ ui' = 1
    /\ found_match' = FALSE
    /\ tested' = <<>>
    /\ UNCHANGED <<entry, services, locations, sitemap_urls, matches, error,
                   session_research_gaps, db_research_gaps>>
    /\ UNCHANGED <<nvars, mvars, ovars, tvars, avars, pvars, kvars, gvars>>

\* after the loops: app.py replaces the session's gaps, api.py replaces the rows
\* of the research_gaps table, and the report is returned
\* the INSERTs of one transaction succeed: id is the table's PRIMARY KEY
CanInsert(rows) ==
    \A i \in 1..Len(rows) : \A j \in 1..Len(rows) : i # j => rows[i].id # rows[j].id

Finish ==
    /\ pc = "finish"
    /\ IF entry = "api" /\ ~CanInsert(gaps)
       THEN \* sqlite3.IntegrityError: nothing is committed, DELETE included
            pc' = "raised" /\ UNCHANGED <<session_research_gaps, db_research_gaps>>
       ELSE /\ pc' = "done"
            /\ session_research_gaps' = IF entry = "logic" THEN gaps ELSE session_research_gaps
            /\ db_research_gaps' = IF entry = "api" THEN gaps ELSE db_research_gaps
    /\ UNCHANGED <<entry, services, locations, sitemap_urls, si, li, ui, found_match,
                   gaps, matches, tested, error>>
    /\ UNCHANGED <<nvars, mvars, ovars, tvars, avars, pvars, kvars, gvars>>

DetNext ==
    \/ StartRun
    \/ TestUrl
    \/ EndCombination
    \/ Finish

Spec == DetInit /\ [][DetNext]_vars

-----------------------------------------------------------------------------
(* Articles and WordPress: the article endpoints of src/src/api.py and      *)
(* publish_article_sync of src/src/wordpress_service.py.  An Optional value *)
(* that is a string is None or a string; a NULL wordpress_post_id is 0,     *)
(* which Python's truth test treats like None                               *)

\* the value of the global wordpress_service after a successful authentication
WordPressService == <<"WordPressService">>

\* article ids ("article-<timestamp>") that requests name
ArticleIds == {"a1", "a2"}

\* PublishRequest.scheduled_date: absent, the empty string, an ISO date
ScheduledDates == {None, <<>>, <<"2", "0", "3", "0">>}

\* Python's truth test of an Optional[str]
Truthy(x) == x # None /\ x # <<>>

\* the row create_article inserts: wordpress_post_id and scheduled_date are NULL
NewArticle == [status |-> "to_publish", wordpress_post_id |-> 0, scheduled_date |-> None]

\* what the POST to /wp-json/wp/v2/posts can do:
\*   exception   requests.post raises before the site creates anything
\*   rejected    the site answers with a status other than 201
\*   unreadable  the site creates the post, but the reply is lost or its
\*               payload has no 'id' or 'link' (the call raises and is caught)
\*   created     the site creates the post and answers 201 with id and link
WpOutcomes == {"exception", "rejected", "unreadable", "created"}

\* the site created a post
WpCreates(outcome) == outcome \in {"unreadable", "created"}

\* the post the site creates for publish_article_sync(article, scheduled_date)
WpPost(scheduled_date) ==
    [status |-> IF Truthy(scheduled_date) THEN "future" ELSE "publish",
     date   |-> IF Truthy(scheduled_date) THEN scheduled_date ELSE None]

\* publish_article_sync without the test for status 201
mut_publish_article_sync(outcome, post_id) ==
    IF outcome \in {"created", "rejected"} THEN <<post_id>> ELSE <<>>

\* publish_article_sync: <<post id>> for the post_result it returns, <<>> for None
publish_article_sync(outcome, post_id) ==
    IF outcome = "created" THEN <<post_id>> ELSE <<>>

\* the record of a call in http_response
Response(op, article_id, scheduled_date, wordpress, status_code) ==
    [op |-> op, article_id |-> article_id, scheduled_date |-> scheduled_date,
     wordpress |-> wordpress, status_code |-> status_code]

\* the fields of a reply that the caller reads: wordpress_deleted of
\* delete_article, updated of check_scheduled_articles, and for the latter the
\* way each GET of a post ended
Body(deleted, updated, checks) ==
    [wordpress_deleted |-> deleted, updated |-> updated, checks |-> checks]

\* the reply of an endpoint that returns neither field
NoBody == Body(FALSE, 0, <<>>)

ArticlesInit ==
    /\ wordpress_service = None
    /\ articles = <<>>
    /\ wp_posts = <<>>
    /\ wp_next_id = 1
    /\ http_response = Response("none", "", None, "not_called", 0)
    /\ http_body = NoBody
    /\ NormIdle
    /\ MatchIdle
    /\ OracleIdle
    /\ StrategyIdle
    /\ DetectorIdle
    /\ PostsIdle
    /\ TagsIdle
    /\ TopicIdle

\* POST /auth/wordpress: the global is set when test_connection_sync succeeds;
\* the 401 raised otherwise is caught and raised again as a 400
AuthenticateWordpress ==
    /\ \E connected \in BOOLEAN :
          /\ wordpress_service' = IF connected THEN WordPressService ELSE wordpress_service
          /\ http_response' = Response("auth", "", None, "not_called", IF connected THEN 200 ELSE 400)
    /\ http_body' = NoBody
    /\ UNCHANGED <<articles, wp_posts, wp_next_id>>
    /\ UNCHANGED <<nvars, mvars, ovars, tvars, dvars, pvars, kvars, gvars>>

\* DELETE /auth/wordpress
LogoutWordpress ==
    /\ wordpress_service' = None
    /\ http_response' = Response("logout", "", None, "not_called", 200)
    /\ http_body' = NoBody
    /\ UNCHANGED <<articles, wp_posts, wp_next_id>>
    /\ UNCHANGED <<nvars, mvars, ovars, tvars, dvars, pvars, kvars, gvars>>

\* POST /articles: the id is made of the time of the call, to the second; an
\* id already in the table breaks the PRIMARY KEY and nothing is inserted
CreateArticle ==
    /\ \E id \in ArticleIds :
          IF id \in DOMAIN articles
          THEN /\ http_response' = Response("create", id, None, "not_called", 500)
               /\ UNCHANGED articles
          ELSE /\ http_response' = Response("create", id, None, "not_called", 200)
               /\ articles' = DictPut(articles, id, NewArticle)
    /\ http_body' = NoBody
    /\ UNCHANGED <<wordpress_service, wp_posts, wp_next_id>>
    /\ UNCHANGED <<nvars, mvars, ovars, tvars, dvars, pvars, kvars, gvars>>

\* the UPDATE of publish_article for the post WordPress returned
PublishedRow(row, post_id, scheduled_date) ==
    IF Truthy(scheduled_date)
    THEN [row EXCEPT !.status = "scheduled", !.wordpress_post_id = post_id,
                     !.scheduled_date = scheduled_date]
    ELSE [row EXCEPT !.status = "published", !.wordpress_post_id = post_id]

\* POST /articles/{article_id}/publish
PublishArticle ==
    /\ \E article_id \in ArticleIds, scheduled_date \in ScheduledDates :
          IF wordpress_service = None
          THEN /\ http_response' = Response("publish", article_id, scheduled_date, "not_called", 401)
               /\ UNCHANGED <<articles, wp_posts, wp_next_id>>
          ELSE IF article_id \notin DOMAIN articles
          THEN /\ http_response' = Response("publish", article_id, scheduled_date, "not_called", 404)
               /\ UNCHANGED <<articles, wp_posts, wp_next_id>>
          ELSE \E outcome \in WpOutcomes :
               LET wordpress_post == publish_article_sync(outcome, wp_next_id)
               IN  /\ WpCreates(outcome) => wp_next_id <= MaxPosts
                   /\ IF WpCreates(outcome)
                      THEN /\ wp_posts' = DictPut(wp_posts, wp_next_id, WpPost(scheduled_date))
                           /\ wp_next_id' = wp_next_id + 1
                      ELSE UNCHANGED <<wp_posts, wp_next_id>>
                   /\ IF wordpress_post # <<>>
                      THEN /\ articles' = [articles EXCEPT ![article_id] =
                                  PublishedRow(@, wordpress_post[1], scheduled_date)]
                           /\ http_response' = Response("publish", article_id, scheduled_date,
                                                   outcome, 200)
                      ELSE /\ UNCHANGED articles
                           /\ http_response' = Response("publish", article_id, scheduled_date,
                                                   outcome, 500)
    /\ http_body' = NoBody
    /\ UNCHANGED wordpress_service
    /\ UNCHANGED <<nvars, mvars, ovars, tvars, dvars, pvars, kvars, gvars>>

\* the statuses an ArticleStatus takes
ArticleStatuses == {"to_publish", "scheduled", "published"}

\* PUT /articles/{article_id}: the UPDATE sets title, content, status and
\* word_count of the row with that id, if there is one, and answers 200
UpdateArticle ==
    /\ \E article_id \in ArticleIds, status \in ArticleStatuses :
          /\ articles' = IF article_id \in DOMAIN articles
                         THEN [articles EXCEPT ![article_id].status = status]
                         ELSE articles
          /\ http_response' = Response("update", article_id, None, "not_called", 200)
    /\ http_body' = NoBody
    /\ UNCHANGED <<wordpress_service, wp_posts, wp_next_id>>
    /\ UNCHANGED <<nvars, mvars, ovars, tvars, dvars, pvars, kvars, gvars>>

\* the table without the row of key k
DictRemove(d, k) ==
    IF (DOMAIN d) \ {k} = {} THEN <<>> ELSE [x \in (DOMAIN d) \ {k} |-> d[x]]

\* what the DELETE of /wp-json/wp/v2/posts/{id} can do:
\*   exception   requests.delete raises before the site does anything
\*   rejected    the site answers with a status other than 200
\*   ok          the site moves the post to its trash and answers 200; the
\*               post stays recorded in wp_posts, and no row names it any more
WpDeleteReplies == {"exception", "rejected", "ok"}

\* delete_article asks WordPress to delete the post of the row
CallsWordpressDelete(row) ==
    row.status = "published" /\ row.wordpress_post_id # 0 /\ wordpress_service # None

\* wordpress_deleted, set for any reply of the site
mut_wordpress_deleted(reply) == reply \in {"ok", "rejected"}

\* wordpress_deleted of delete_article: set only when the site answered 200
wordpress_deleted(reply) == reply = "ok"

\* DELETE /articles/{article_id}
DeleteArticle ==
    /\ \E article_id \in ArticleIds :
          IF article_id \notin DOMAIN articles
          THEN /\ http_response' = Response("delete", article_id, None, "not_called", 404)
               /\ http_body' = NoBody
               /\ UNCHANGED <<articles, wp_posts>>
          ELSE LET row == articles[article_id]
               IN  IF CallsWordpressDelete(row)
                   THEN \E reply \in WpDeleteReplies :
                        /\ UNCHANGED wp_posts
                        /\ articles' = DictRemove(articles, article_id)
                        /\ http_response' = Response("delete", article_id, None, reply, 200)
                        /\ http_body' = Body(wordpress_deleted(reply), 0, <<>>)
                   ELSE /\ UNCHANGED wp_posts
                        /\ articles' = DictRemove(articles, article_id)
                        /\ http_response' = Response("delete", article_id, None, "not_called", 200)
                        /\ http_body' = Body(FALSE, 0, <<>>)
    /\ UNCHANGED <<wordpress_service, wp_next_id>>
    /\ UNCHANGED <<nvars, mvars, ovars, tvars, dvars, pvars, kvars, gvars>>

\* the WordPress site publishes a post it holds for a later date once that
\* date has come
WordpressPublishesScheduled ==
    /\ \E post_id \in DOMAIN wp_posts :
          /\ wp_posts[post_id].status = "future"
          /\ wp_posts' = [wp_posts EXCEPT ![post_id].status = "publish"]
    /\ UNCHANGED <<wordpress_service, articles, wp_next_id, http_response, http_body>>
    /\ UNCHANGED <<nvars, mvars, ovars, tvars, dvars, pvars, kvars, gvars>>

\* what the GET of /wp-json/wp/v2/posts/{id} can do:
\*   exception   requests.get raises, or the payload is no JSON object
\*   rejected    the site answers with a status other than 200
\*   ok          the site answers 200 with the post, its status included
WpGetReplies == {"exception", "rejected", "ok"}

\* the rows check_scheduled_articles selects
ScheduledArticles ==
    {id \in DOMAIN articles :
        articles[id].status = "scheduled" /\ articles[id].wordpress_post_id # 0}

\* the row is updated for any post the site returns
mut_MarksPublished(reply, wp_status) == reply = "ok"

\* check_scheduled_articles updates the row: the GET answered 200 and the
\* post's status is 'publish'
MarksPublished(reply, wp_status) == reply = "ok" /\ wp_status = "publish"

\* POST /articles/check-scheduled
CheckScheduledArticles ==
    /\ IF wordpress_service = None
       THEN /\ http_response' = Response("check", "", None, "not_called", 200)
            /\ http_body' = NoBody
            /\ UNCHANGED articles
       ELSE \E checks \in [ScheduledArticles -> WpGetReplies] :
               LET updated == {id \in ScheduledArticles :
                                  MarksPublished(checks[id],
                                      wp_posts[articles[id].wordpress_post_id].status)}
               IN  /\ articles' = [id \in DOMAIN articles |->
                                      IF id \in updated
                                      THEN [articles[id] EXCEPT !.status = "published"]
                                      ELSE articles[id]]
                   /\ http_response' = Response("check", "", None,
                          IF ScheduledArticles = {} THEN "not_called" ELSE "called", 200)
                   /\ http_body' = Body(FALSE, Cardinality(updated), checks)
    /\ UNCHANGED <<wordpress_service, wp_posts, wp_next_id>>
    /\ UNCHANGED <<nvars, mvars, ovars, tvars, dvars, pvars, kvars, gvars>>

ArticlesNext ==
    \/ AuthenticateWordpress
    \/ LogoutWordpress
    \/ CreateArticle
    \/ UpdateArticle
    \/ PublishArticle
    \/ DeleteArticle
    \/ WordpressPublishesScheduled
    \/ CheckScheduledArticles

SpecArticles == ArticlesInit /\ [][ArticlesNext]_vars

-----------------------------------------------------------------------------
(* GET /wordpress/posts: one call of get_wordpress_posts of src/src/api.py,  *)
(* a step for each request it sends to the WordPress site                    *)

\* the page after which the paging loop gives up
MaxPages == 50

\* per_page of the loop's requests, the most posts on a page
PerPage == 100

\* what a GET of a page of posts can do:
\*   exception   requests.get raises, or the payload is not JSON or not iterable
\*   not_200     the site answers with a status other than 200
\*   ok          the site answers 200 with n posts; n = 0 is the empty page
PageReplies ==
    {[kind |-> "exception", n |-> 0], [kind |-> "not_200", n |-> 0]}
        \cup {[kind |-> "ok", n |-> n] : n \in {0, 1, PerPage}}

\* the safety check of the loop, passing one page more
mut_PageLimitReached(page) == page > MaxPages + 1

\* the safety check at the end of the loop body
PageLimitReached(page) == page > MaxPages

PostsInit ==
    /\ wordpress_service \in {None, WordPressService}
    /\ articles = <<>>
    /\ wp_posts = <<>>
    /\ wp_next_id = 1
    /\ http_response = Response("none", "", None, "not_called", 0)
    /\ http_body = NoBody
    /\ p_pc = "call"
    /\ fetch_all \in BOOLEAN
    /\ current_page = 0
    /\ all_posts = 0
    /\ p_requests = 0
    /\ p_stopped = FALSE
    /\ p_status = 0
    /\ NormIdle
    /\ MatchIdle
    /\ OracleIdle
    /\ StrategyIdle
    /\ DetectorIdle
    /\ TagsIdle
    /\ TopicIdle

\* entry: 401 without a WordPress connection; current_page = 1 before the loop
EnterGetWordpressPosts ==
    /\ p_pc = "call"
    /\ IF wordpress_service = None
       THEN /\ p_status' = 401
            /\ p_pc' = "done"
            /\ UNCHANGED current_page
       ELSE IF fetch_all
       THEN /\ current_page' = 1
            /\ p_pc' = "loop"
            /\ UNCHANGED p_status
       ELSE /\ p_pc' = "single"
            /\ UNCHANGED <<current_page, p_status>>
    /\ UNCHANGED <<fetch_all, all_posts, p_requests, p_stopped>>
    /\ UNCHANGED <<nvars, mvars, ovars, tvars, dvars, avars, kvars, gvars>>

\* one pass of the while True loop: the request for current_page and what
\* follows it; an exception leaves the loop for the handler's except (500)
FetchPage ==
    /\ p_pc = "loop"
    /\ p_requests' = p_requests + 1
    /\ \E reply \in PageReplies :
          IF reply.kind = "exception"
          THEN /\ p_status' = 500
               /\ p_pc' = "done"
               /\ UNCHANGED <<current_page, all_posts, p_stopped>>
          ELSE IF reply.kind = "not_200" \/ reply.n = 0
          THEN /\ p_stopped' = TRUE
               /\ p_pc' = "after"
               /\ UNCHANGED <<current_page, all_posts, p_status>>
          ELSE /\ all_posts' = all_posts + reply.n
               /\ current_page' = current_page + 1
               /\ p_pc' = IF PageLimitReached(current_page + 1) THEN "after" ELSE "loop"
               /\ UNCHANGED <<p_stopped, p_status>>
    /\ UNCHANGED fetch_all
    /\ UNCHANGED <<nvars, mvars, ovars, tvars, dvars, avars, kvars, gvars>>

\* the single request made without fetch_all: the HTTPException raised for a
\* status other than 200 is caught by the handler's except and becomes a 500
FetchSinglePage ==
    /\ p_pc = "single"
    /\ p_requests' = p_requests + 1
    /\ \E reply \in PageReplies :
          IF reply.kind \in {"exception", "not_200"}
          THEN /\ p_status' = 500
               /\ p_pc' = "done"
               /\ UNCHANGED all_posts
          ELSE /\ all_posts' = reply.n
               /\ p_pc' = "after"
               /\ UNCHANGED p_status
    /\ UNCHANGED <<fetch_all, current_page, p_stopped>>
    /\ UNCHANGED <<nvars, mvars, ovars, tvars, dvars, avars, kvars, gvars>>

\* the request for the categories and the formatting of the posts collected:
\* the reply, or a 500 when the request or a post's fields raise
FormatPosts ==
    /\ p_pc = "after"
    /\ \E formatted \in BOOLEAN : p_status' = IF formatted THEN 200 ELSE 500
    /\ p_pc' = "done"
    /\ UNCHANGED <<fetch_all, current_page, all_posts, p_requests, p_stopped>>
    /\ UNCHANGED <<nvars, mvars, ovars, tvars, dvars, avars, kvars, gvars>>

PostsNext ==
    \/ EnterGetWordpressPosts
    \/ FetchPage
    \/ FetchSinglePage
    \/ FormatPosts

\* the handler runs on: each request it sends is answered or raises
SpecPosts == PostsInit /\ [][PostsNext]_vars /\ WF_vars(PostsNext)

-----------------------------------------------------------------------------
(* Tag lists of the dashboard: add_tag, remove_tag and the remove buttons of *)
(* src/app.py, working on st.session_state.services_tags and locations_tags  *)

\* the tag_type a call names; add_tag and remove_tag know the first two
TagTypes == {"services", "locations", "other"}

\* the texts a user enters as tags
TagValues == {<<"a">>, <<"A">>, <<"b">>}

\* the indexes given to remove_tag, Python's: the first tag has index 0
TagIndexes == (-1) .. MaxTags

\* the record of a call in k_call
TagCall(fn, tag_type, value, index) ==
    [fn |-> fn, tag_type |-> tag_type, value |-> value, index |-> index]

\* add_tag without its test: no value counts as present
mut_TagIn(value, tags) == FALSE

\* Python's  value in tags
TagIn(value, tags) == \E i \in 1 .. Len(tags) : tags[i] = value

\* the range test of remove_tag
IndexInRange(index, tags) == 0 <= index /\ index < Len(tags)

\* Python's  tags.pop(index)  for an index in range
Pop(tags, index) ==
    [i \in 1 .. (Len(tags) - 1) |-> IF i <= index THEN tags[i] ELSE tags[i + 1]]

TagsInit ==
    /\ services_tags = <<>>
    /\ locations_tags = <<>>
    /\ k_call = TagCall("none", "other", <<>>, 0)
    /\ NormIdle
    /\ MatchIdle
    /\ OracleIdle
    /\ StrategyIdle
    /\ DetectorIdle
    /\ ArticlesIdle
    /\ PostsIdle
    /\ TopicIdle

\* add_tag(tag_type, value)
AddTag ==
    /\ \E tag_type \in TagTypes, value \in TagValues :
          /\ k_call' = TagCall("add_tag", tag_type, value, 0)
          /\ IF tag_type = "services" /\ ~TagIn(value, services_tags)
             THEN /\ Len(services_tags) < MaxTags
                  /\ services_tags' = Append(services_tags, value)
                  /\ UNCHANGED locations_tags
             ELSE IF tag_type = "locations" /\ ~TagIn(value, locations_tags)
             THEN /\ Len(locations_tags) < MaxTags
                  /\ locations_tags' = Append(locations_tags, value)
                  /\ UNCHANGED services_tags
             ELSE UNCHANGED <<services_tags, locations_tags>>
    /\ UNCHANGED <<nvars, mvars, ovars, tvars, dvars, avars, pvars, gvars>>

\* remove_tag(tag_type, index)
RemoveTag ==
    /\ \E tag_type \in TagTypes, index \in TagIndexes :
          /\ k_call' = TagCall("remove_tag", tag_type, <<>>, index)
          /\ IF tag_type = "services" /\ IndexInRange(index, services_tags)
             THEN /\ services_tags' = Pop(services_tags, index)
                  /\ UNCHANGED locations_tags
             ELSE IF tag_type = "locations" /\ IndexInRange(index, locations_tags)
             THEN /\ locations_tags' = Pop(locations_tags, index)
                  /\ UNCHANGED services_tags
             ELSE UNCHANGED <<services_tags, locations_tags>>
    /\ UNCHANGED <<nvars, mvars, ovars, tvars, dvars, avars, pvars, gvars>>

\* the remove button drawn next to the tag at position i + j of its list
RemoveButton ==
    /\ \E tag_type \in {"services", "locations"} :
          LET tags == IF tag_type = "services" THEN services_tags ELSE locations_tags
          IN  \E index \in 0 .. (Len(tags) - 1) :
                 /\ k_call' = TagCall("button", tag_type, <<>>, index)
                 /\ IF tag_type = "services"
                    THEN /\ services_tags' = Pop(services_tags, index)
                         /\ UNCHANGED locations_tags
                    ELSE /\ locations_tags' = Pop(locations_tags, index)
                         /\ UNCHANGED services_tags
    /\ UNCHANGED <<nvars, mvars, ovars, tvars, dvars, avars, pvars, gvars>>

TagsNext ==
    \/ AddTag
    \/ RemoveTag
    \/ RemoveButton

SpecTags == TagsInit /\ [][TagsNext]_vars

-----------------------------------------------------------------------------
(* Gap topic parsing: the gap text '{service} in {location}' the detector    *)
(* emits, handed to generate_article_from_gap of src/src/article_generator.py *)

\* the words services and locations are made of
TopicWords == {<<"a">>, <<"B">>, <<"I", "n">>}

\* the services and locations: up to MaxTopicWords words joined by blanks, the
\* empty text, and a word with a blank on either side
TopicTexts ==
    {Join(ws, <<" ">>) : ws \in ListsUpTo(TopicWords, MaxTopicWords)}
        \cup {<<" ", "a", " ">>}

\* str.split(sep) for a separator of any length: the separator is looked for
\* from the left, and again after each hit
RECURSIVE SplitOn(_, _)
SplitOn(s, sep) ==
    LET hits == {i \in 0 .. (Len(s) - Len(sep)) : OccursAt(s, sep, i)}
    IN  IF hits = {} THEN <<s>>
        ELSE LET i == CHOOSE k \in hits : \A j \in hits : k <= j
             IN  <<SubSeq(s, 1, i)>> \o SplitOn(SubSeq(s, i + Len(sep) + 1, Len(s)), sep)

\* the city the article is written about when the text has no ' in '
YourArea == <<"y", "o", "u", "r", " ", "a", "r", "e", "a">>

\* generate_article_from_gap, up to the prompt: the service and the city
generate_article_from_gap(topic) ==
    LET parts == SplitOn(Lower(topic), <<" ", "i", "n", " ">>)
    IN  IF Len(parts) >= 2
        THEN [service |-> Strip(parts[1]), city |-> Strip(parts[2])]
        ELSE [service |-> Strip(topic), city |-> YourArea]

TopicInit ==
    /\ g_pc = "input"
    /\ g_service \in TopicTexts
    /\ g_location \in TopicTexts
    /\ gap_topic = Combination(g_service, g_location)
    /\ g_parsed = [service |-> <<>>, city |-> <<>>]
    /\ NormIdle
    /\ MatchIdle
    /\ OracleIdle
    /\ StrategyIdle
    /\ DetectorIdle
    /\ ArticlesIdle
    /\ PostsIdle
    /\ TagsIdle

\* the call generate_article_from_gap(gap_topic)
GenerateArticleFromGap ==
    /\ g_pc = "input"
    /\ g_parsed' = generate_article_from_gap(gap_topic)
    /\ g_pc' = "done"
    /\ UNCHANGED <<g_service, g_location, gap_topic>>
    /\ UNCHANGED <<nvars, mvars, ovars, tvars, dvars, avars, pvars, kvars>>

TopicNext ==
    \/ GenerateArticleFromGap

SpecTopic == TopicInit /\ [][TopicNext]_vars

-----------------------------------------------------------------------------
(* Properties of the gap detector (Spec) *)

\* the combination string of an entry of gaps
GapCombination(g) == IF entry = "api" THEN g.combination ELSE g

GapKeys == {GapCombination(gaps[k]) : k \in 1..Len(gaps)}

CombinationKeys ==
    {Combination(services[i], locations[j]) : i \in 1..Len(services), j \in 1..Len(locations)}

\* C1: when a run returns, every combination of services x locations is in
\* exactly one of matches and gaps, and len(matches) + len(gaps) equals
\* len(services) * len(locations), whatever the input lists are.
Claim_C1_Partition ==
    pc = "done" =>
        /\ Cardinality(DOMAIN matches) + Len(gaps) = Len(services) * Len(locations)
        /\ \A c \in CombinationKeys : (c \in DOMAIN matches) # (c \in GapKeys)
        /\ (DOMAIN matches) \cup GapKeys = CombinationKeys

\* the answer the entry point's deterministic pipeline gives for URL number k
\* and the current combination
PipelineMatches(k) ==
    IF entry = "no_llm"
    THEN comprehensive_match(services[si], locations[li], sitemap_urls[k]).is_match
    ELSE api_comprehensive_match(services[si], locations[li], sitemap_urls[k]).is_match

\* C2: the URL recorded for a matched combination is the lowest-index URL for
\* which the pipeline returned a match; URLs are tested in input order and none
\* is tested after the first match.
Thm_C2_FirstFoundWins ==
    pc \in {"scan", "close", "raised"} =>
        LET n == Len(tested)
            c == Combination(services[si], locations[li])
        IN  /\ \A k \in 1..n : tested[k].url = k
            /\ \A k \in 1..(n - 1) : ~tested[k].is_match
            /\ found_match <=> (n >= 1 /\ tested[n].is_match)
            /\ found_match =>
                  /\ pc = "close"
                  /\ c \in DOMAIN matches
                  /\ matches[c].url = sitemap_urls[n]
            /\ (found_match /\ entry # "logic") =>
                  /\ PipelineMatches(n)
                  /\ \A k \in 1..(n - 1) : ~PipelineMatches(k)

\* C2 witness: a match was recorded for the first URL while a later URL, which
\* the pipeline would also accept, is left untested.
Wit_C2_LaterUrlUntested ==
    /\ entry = "no_llm" /\ pc = "close" /\ found_match
    /\ Len(tested) = 1 /\ Len(sitemap_urls) = 2
    /\ sitemap_urls[1] # sitemap_urls[2]
    /\ PipelineMatches(2)
    /\ matches[Combination(services[si], locations[li])].url = sitemap_urls[1]

\* C4: every entry point ends in an empty-input error, having tested nothing,
\* whenever the services list, the locations list or the URL list is empty.
Claim_C4_EmptyInputFailsFast ==
    (pc # "idle" /\ (services = <<>> \/ locations = <<>> \/ sitemap_urls = <<>>)) =>
        /\ pc = "error"
        /\ error # ""
        /\ tested = <<>> /\ gaps = <<>> /\ matches = <<>>

\* the oracle was asked in check number k and gave no usable answer
OracleUnavailable(k) == tested[k].queried /\ tested[k].transport # "ok"

\* C5: in the strict pipeline a check whose oracle round trip fails (exception,
\* non-200 status, non-JSON payload, payload without 'response') returns false
\* without raising, the scan goes on with the next URL, and the combination is
\* appended to gaps when no URL matched it.
Inv_C5_UnavailableIsNoMatch ==
    pc \in {"scan", "close", "raised"} =>
        \A k \in 1..Len(tested) :
            OracleUnavailable(k) =>
                /\ ~tested[k].is_match
                /\ ~tested[k].raised
                /\ \/ k < Len(tested)
                   \/ pc = "scan" /\ ui = k + 1
                   \/ pc = "close" /\ k = Len(sitemap_urls) /\ ~found_match

Act_C5_UnmatchedBecomesGap ==
    (/\ pc = "close"
     /\ \E k \in 1..Len(tested) : OracleUnavailable(k)
     /\ \A k \in 1..Len(tested) : ~tested[k].is_match)
    => /\ Len(gaps') = Len(gaps) + 1
       /\ gaps'[Len(gaps')] = Combination(services[si], locations[li])
       /\ matches' = matches

Thm_C5_OracleFailureIsNonFatal ==
    []Inv_C5_UnavailableIsNoMatch /\ [][Act_C5_UnmatchedBecomesGap]_vars

\* C5 witness: the oracle failed on the first URL, the second URL was checked
\* too, and the combination is about to be recorded as a gap.
Wit_C5_FailedThenContinued ==
    /\ entry = "logic" /\ pc = "close" /\ ~found_match
    /\ Len(tested) = 2
    /\ OracleUnavailable(1)

\* the exact-phrase test of the strict pipeline on URL number k
StrictExact(k) ==
    Contains(normalize_text(sitemap_urls[k]),
             Lower(Combination(services[si], locations[li])))

\* C7: the strict pipeline asks the oracle for a (combination, URL) pair exactly
\* when the exact-phrase test on that pair failed, and the oracle is its only
\* fall-back: such a pair matches only if the oracle answered yes, also when the
\* slug holds both words as tokens; the four-strategy pipelines never ask it.
\* Stated of the check just made: every check is the latest one in the state
\* that follows it.
Thm_C7_OracleDiscipline ==
    (pc \in {"scan", "close", "raised"} /\ tested # <<>>) =>
        LET k     == Len(tested)
            exact == StrictExact(k)
        IN  /\ entry # "logic" => ~tested[k].queried
            /\ entry = "logic" =>
                  /\ tested[k].queried <=> ~exact
                  /\ exact => tested[k].is_match
                  /\ (tested[k].is_match /\ ~exact) =>
                        (tested[k].transport = "ok" /\ tested[k].body = Yes)

\* C7 witness: the slug holds both words as tokens but not the phrase, the
\* oracle was asked and said no, and the URL did not match.
Wit_C7_TokenOnlyOracleNo ==
    /\ entry = "logic" /\ pc \in {"scan", "close"}
    /\ Len(tested) >= 1
    /\ token_based_match(services[si], locations[li], normalize_text(sitemap_urls[1]))
    /\ tested[1].queried /\ tested[1].transport = "ok" /\ tested[1].body = <<"n", "o">>
    /\ ~tested[1].is_match

Methods == {"exact_phrase", "token_based", "regex_pattern", "fuzzy_similarity", "oracle"}

\* C8: every entry of matches, on every entry point, carries the URL and a
\* method, and the method is one of exact_phrase, token_based, regex_pattern,
\* fuzzy_similarity or oracle.
Claim_C8_MatchEntries ==
    \A c \in DOMAIN matches :
        /\ "url" \in DOMAIN matches[c]
        /\ "method" \in DOMAIN matches[c]
        /\ matches[c].method \in Methods

\* the normalized slug of URL number k holds the lower-cased service number i
SlugHoldsService(k, i) ==
    Contains(normalize_url(sitemap_urls[k]), Lower(services[i]))

\* no URL of the run has the service number i in its slug
ServiceAbsent(i) == \A k \in 1..Len(sitemap_urls) : ~SlugHoldsService(k, i)

\* C12: in the four-strategy pipeline a URL matches a combination only if its
\* normalized slug contains the lower-cased service; when no slug of the run
\* contains a service, each of its combinations ends in gaps, once per
\* (service, location) pair, and none of them is a key of matches.
Thm_C12_ServiceMustBePresent ==
    entry = "no_llm" =>
        /\ pc \in {"scan", "close"} =>
              \A k \in 1..Len(tested) : tested[k].is_match => SlugHoldsService(tested[k].url, si)
        /\ pc = "close" /\ ServiceAbsent(si) => ~found_match
        /\ pc = "done" =>
              \A i \in 1..Len(services) : ServiceAbsent(i) =>
                  \A j \in 1..Len(locations) :
                      LET c == Combination(services[i], locations[j])
                      IN  /\ c \notin DOMAIN matches
                          /\ Cardinality({k \in 1..Len(gaps) : gaps[k] = c})
                               = Cardinality({p \in (1..Len(services)) \X (1..Len(locations)) :
                                                Combination(services[p[1]], locations[p[2]]) = c})

\* C12 witness: a run whose URL slug "a in b" is within the similarity
\* threshold of the phrase "x in b" but does not hold the service "x": the
\* combination "x in b" is a gap, while another service of the run matched.
Wit_C12_SimilarSlugWithoutService ==
    /\ entry = "no_llm" /\ pc = "done"
    /\ \E i \in 1..Len(services) : \E j \in 1..Len(locations) : \E k \in 1..Len(sitemap_urls) :
          /\ ServiceAbsent(i)
          /\ RatioAtLeast(Lower(Combination(services[i], locations[j])),
                          normalize_url(sitemap_urls[k]),
                          FuzzyThresholdNum, FuzzyThresholdDen)
          /\ Combination(services[i], locations[j]) \in GapKeys
    /\ matches # <<>>

\* str.upper() on one character, and on a string
UpperChar(c) ==
    IF c \in Range(LowerLetters)
    THEN UpperLetters[CHOOSE i \in 1..26 : LowerLetters[i] = c]
    ELSE c

Upper(s) == [i \in 1..Len(s) |-> UpperChar(s[i])]

\* the answer the entry point's pipeline gives for service svc, location loc
\* and URL number k, under the oracle round trip recorded in check number n
AnswerFor(svc, loc, k, n) ==
    IF entry = "no_llm" THEN Comprehensive(comprehensive_match(svc, loc, sitemap_urls[k]))
    ELSE IF entry = "api" THEN Comprehensive(api_comprehensive_match(svc, loc, sitemap_urls[k]))
    ELSE Strict(check_match(svc, loc, sitemap_urls[k], tested[n].transport, tested[n].body),
                tested[n].transport, tested[n].body)

\* the service and the location in lower case and in upper case, without the
\* spelling they already have
OtherCases(svc, loc) ==
    {<<Lower(svc), Lower(loc)>>, <<Upper(svc), Upper(loc)>>} \ {<<svc, loc>>}

PairAt(p) ==
    <<services[((p - 1) \div Len(locations)) + 1], locations[((p - 1) % Len(locations)) + 1]>>

\* what an entry of gaps must show for the pair at place p
PairKey(p) ==
    IF entry = "api"
    THEN <<PairAt(p)[1], PairAt(p)[2], Combination(PairAt(p)[1], PairAt(p)[2])>>
    ELSE Combination(PairAt(p)[1], PairAt(p)[2])

GapKey(g) == IF entry = "api" THEN <<g.service, g.location, g.combination>> ELSE g

\* xs can be obtained from ys by deleting elements
RECURSIVE IsSubsequence(_, _)
IsSubsequence(xs, ys) ==
    IF xs = <<>> THEN TRUE
    ELSE IF ys = <<>> THEN FALSE
    ELSE IF Head(xs) = Head(ys) THEN IsSubsequence(Tail(xs), Tail(ys))
    ELSE IsSubsequence(xs, Tail(ys))

\* no URL of the run matches the pair at place p (four-strategy and API pipelines)
PairUnmatched(p) ==
    \A k \in 1..Len(sitemap_urls) :
        ~(IF entry = "no_llm"
          THEN comprehensive_match(PairAt(p)[1], PairAt(p)[2], sitemap_urls[k]).is_match
          ELSE api_comprehensive_match(PairAt(p)[1], PairAt(p)[2], sitemap_urls[k]).is_match)

\* C14: gaps lists unmatched combinations in cross-product order, service-major
\* and location-minor: at every moment gaps is a subsequence of the combinations
\* the loops have gone through, in that order, and when a four-strategy or API
\* run returns, gaps is exactly the list of places no URL matched, in order.
Thm_C14_GapsInCrossProductOrder ==
    pc \in {"scan", "close", "raised", "finish", "done"} =>
        LET passed == (si - 1) * Len(locations) + (li - 1)
            keys   == [k \in 1..Len(gaps) |-> GapKey(gaps[k])]
        IN  /\ IsSubsequence(keys, [p \in 1..passed |-> PairKey(p)])
            /\ (pc = "done" /\ entry # "logic") =>
                  LET places == SelectSeq([p \in 1..passed |-> p], PairUnmatched)
                  IN  /\ passed = Len(services) * Len(locations)
                      /\ keys = [k \in 1..Len(places) |-> PairKey(places[k])]

\* C14 witness: a run with three gaps from two services, in order, and a
\* matched combination between the second and the third.
Wit_C14_GapsAroundAMatch ==
    /\ entry = "api" /\ pc = "done"
    /\ Len(services) = 2 /\ Len(locations) = 2
    /\ Len(gaps) = 3
    /\ GapKey(gaps[1]) = PairKey(1) /\ GapKey(gaps[2]) = PairKey(2) /\ GapKey(gaps[3]) = PairKey(4)
    /\ PairKey(3)[3] \in DOMAIN matches
    /\ PairKey(1) # PairKey(2) /\ PairKey(2) # PairKey(4) /\ PairKey(1) # PairKey(4)

\* C16: a step in which /research-gaps/analyze meets empty services, empty
\* locations or no sitemap URLs, or find_research_gaps_logic meets no URLs, ends
\* the run in an error with the stored research_gaps rows and the session's
\* research_gaps list as they were, and nothing changes them afterwards.
Act_C16_ErrorLeavesStoreUntouched ==
    /\ (/\ pc = "idle"
        /\ \/ entry' = "api" /\ (services' = <<>> \/ locations' = <<>> \/ sitemap_urls' = <<>>)
           \/ entry' = "logic" /\ sitemap_urls' = <<>>)
       => /\ pc' = "error" /\ error' # ""
          /\ db_research_gaps' = db_research_gaps
          /\ session_research_gaps' = session_research_gaps
          /\ gaps' = <<>> /\ matches' = <<>> /\ tested' = <<>>
    /\ (pc = "error" \/ pc' = "error")
       => /\ db_research_gaps' = db_research_gaps
          /\ session_research_gaps' = session_research_gaps

Thm_C16_InputErrorFrame == [][Act_C16_ErrorLeavesStoreUntouched]_vars

\* C16 witness: a request without services was rejected while the table held
\* the rows of an earlier run, and the rows are still there.
Wit_C16_RejectedWithRowsStored ==
    /\ pc = "error" /\ entry = "api"
    /\ services = <<>> /\ sitemap_urls # <<>>
    /\ db_research_gaps = EarlierRows

\* some URL of the run matches the pair at place p once the service and the
\* location are stripped of leading and trailing white space
PairMatchesTrimmed(p) ==
    \E k \in 1..Len(sitemap_urls) :
        IF entry = "no_llm"
        THEN comprehensive_match(Strip(PairAt(p)[1]), Strip(PairAt(p)[2]), sitemap_urls[k]).is_match
        ELSE api_comprehensive_match(Strip(PairAt(p)[1]), Strip(PairAt(p)[2]), sitemap_urls[k]).is_match

\* C17: on every entry point the services and locations are matched in their
\* trimmed form: the strict pipeline receives trimmed items only, and a
\* four-strategy or API run classifies a combination as matched exactly when
\* some URL matches its trimmed service and location, as a gap otherwise.
Claim_C17_TrimmedBeforeMatching ==
    /\ (entry = "logic" /\ pc # "idle") =>
          /\ \A i \in 1..Len(services) : Strip(services[i]) = services[i]
          /\ \A j \in 1..Len(locations) : Strip(locations[j]) = locations[j]
    /\ (entry \in {"no_llm", "api"} /\ pc = "done") =>
          \A p \in 1..(Len(services) * Len(locations)) :
              /\ (PairKey(p) \in {GapKey(gaps[k]) : k \in 1..Len(gaps)}) <=> ~PairMatchesTrimmed(p)
              /\ (Combination(PairAt(p)[1], PairAt(p)[2]) \in DOMAIN matches) <=> PairMatchesTrimmed(p)

\* C19: the gaps an API run is about to store have pairwise distinct ids, so
\* the store never fails; the store replaces whatever rows the table held by
\* the gaps of the run; and after it the table holds one row for each place of
\* the cross product that no URL matched, in order, and nothing else.
Inv_C19_RowsAreTheRunsGaps ==
    entry = "api" =>
        /\ pc # "raised"
        /\ pc \in {"scan", "close", "finish", "done"} =>
              Cardinality({gaps[k].id : k \in 1..Len(gaps)}) = Len(gaps)
        /\ pc = "done" =>
              LET places == SelectSeq([p \in 1..(Len(services) * Len(locations)) |-> p],
                                      PairUnmatched)
              IN  /\ db_research_gaps = gaps
                  /\ Len(db_research_gaps) = Len(places)
                  /\ \A k \in 1..Len(places) :
                        /\ db_research_gaps[k].service = PairAt(places[k])[1]
                        /\ db_research_gaps[k].location = PairAt(places[k])[2]
                        /\ db_research_gaps[k].combination =
                              Combination(PairAt(places[k])[1], PairAt(places[k])[2])
                  /\ \A i \in 1..Len(db_research_gaps) : \A j \in 1..Len(db_research_gaps) :
                        i # j => db_research_gaps[i].id # db_research_gaps[j].id

Act_C19_StoreReplacesRows ==
    (entry = "api" /\ pc = "finish") => (pc' = "done" /\ db_research_gaps' = gaps)

Thm_C19_TableHoldsRunGaps ==
    []Inv_C19_RowsAreTheRunsGaps /\ [][Act_C19_StoreReplacesRows]_vars

\* C19 witness: an API run that began with the row of an earlier run in the
\* table (the session list, which an API run leaves alone, began filled with
\* it) has stored two gaps, and the earlier row is gone.
Wit_C19_EarlierRowsReplaced ==
    /\ entry = "api" /\ pc = "done"
    /\ session_research_gaps = EarlierSessionGaps
    /\ Len(db_research_gaps) = 2
    /\ db_research_gaps[1].id # db_research_gaps[2].id
    /\ \A k \in 1..2 : db_research_gaps[k].combination # EarlierRows[1].combination

-----------------------------------------------------------------------------
(* Properties of the article endpoints (SpecArticles) *)

\* the step is a call of the endpoint op: its reply is the one recorded, and the
\* step is not the WordPress site's own
IsCall(op) == http_response'.op = op /\ ~WordpressPublishesScheduled

\* C20: a publish call changes no row but the one it names, and that one only
\* when WordPress created the post and returned it: the status becomes
\* 'scheduled' and the date is stored when a scheduled_date is given,
\* 'published' when none is given, and the post's id is stored; when WordPress
\* is not authenticated (401), the article id is unknown (404) or WordPress
\* returns no created post (500), the call ends in that error and the articles
\* table is as it was.
Act_C20_PublishOutcome ==
    IsCall("publish") =>
        LET r       == http_response'
            id      == r.article_id
            date    == r.scheduled_date
            known   == id \in DOMAIN articles
            posted  == wordpress_service # None /\ known /\ r.wordpress = "created"
        IN  /\ DOMAIN articles' = DOMAIN articles
            /\ \A a \in DOMAIN articles : a # id => articles'[a] = articles[a]
            /\ wordpress_service = None => r.status_code = 401
            /\ (wordpress_service # None /\ ~known) => r.status_code = 404
            /\ (wordpress_service # None /\ known /\ r.wordpress # "created")
                  => r.status_code = 500
            /\ ~posted => articles' = articles
            /\ posted =>
                  /\ r.status_code = 200
                  /\ articles'[id].status = IF Truthy(date) THEN "scheduled" ELSE "published"
                  /\ articles'[id].scheduled_date =
                        IF Truthy(date) THEN date ELSE articles[id].scheduled_date
                  /\ articles'[id].wordpress_post_id = wp_next_id
                  /\ wp_next_id \in DOMAIN wp_posts' /\ wp_next_id \notin DOMAIN wp_posts
                  /\ wp_posts'[wp_next_id].status = IF Truthy(date) THEN "future" ELSE "publish"

Thm_C20_PublishChangesStatusOnSuccessOnly == [][Act_C20_PublishOutcome]_vars

\* C20 witness: a publish call with a date succeeded: the article is
\* 'scheduled' with the date stored and points at the post WordPress holds for
\* that date, while the other article is still to be published.
Wit_C20_ScheduledWithDate ==
    /\ http_response.op = "publish" /\ http_response.status_code = 200
    /\ Truthy(http_response.scheduled_date)
    /\ http_response.article_id \in DOMAIN articles
    /\ LET row == articles[http_response.article_id]
       IN  /\ row.status = "scheduled"
           /\ row.scheduled_date = http_response.scheduled_date
           /\ row.wordpress_post_id \in DOMAIN wp_posts
           /\ wp_posts[row.wordpress_post_id].status = "future"
    /\ \E a \in DOMAIN articles : articles[a].status = "to_publish"

-----------------------------------------------------------------------------
(* Properties of the match strategies (SpecMatch) *)

\* C3: comprehensive_match reports the first strategy that accepts, in the
\* order exact_phrase, token_based, regex_pattern, fuzzy_similarity, and
\* (False, no_match) exactly when none accepts; a slug containing the phrase is
\* exact_phrase whatever the later strategies say, and a slug holding both words
\* as tokens but not the phrase is token_based.
Thm_C3_StrategyOrder ==
    m_pc = "done" =>
        LET slug   == normalize_url(m_url)
            phrase == Lower(m_service) \o <<" ", "i", "n", " ">> \o Lower(m_location)
            e == exact_phrase_match(m_service, m_location, slug)
            t == token_based_match(m_service, m_location, slug)
            r == regex_pattern_match(m_service, m_location, slug)
            f == fuzzy_similarity_match(m_service, m_location, slug,
                                        FuzzyThresholdNum, FuzzyThresholdDen)
        IN  /\ (m_result.method = "exact_phrase") <=> e
            /\ (m_result.method = "token_based") <=> (~e /\ t)
            /\ (m_result.method = "regex_pattern") <=> (~e /\ ~t /\ r)
            /\ (m_result.method = "fuzzy_similarity") <=> (~e /\ ~t /\ ~r /\ f)
            /\ (m_result.method = "no_match") <=> (~e /\ ~t /\ ~r /\ ~f)
            /\ m_result.is_match <=> (m_result.method # "no_match")
            /\ Contains(slug, phrase) => m_result.method = "exact_phrase"
            /\ ({Lower(m_service), Lower(m_location)} \subseteq Tokens(slug)
                    /\ ~Contains(slug, phrase))
                  => m_result.method = "token_based"

\* C3 witness: the slug is accepted by exact_phrase and by fuzzy_similarity, and
\* the method reported is exact_phrase.
Wit_C3_ExactBeforeFuzzy ==
    /\ m_pc = "done"
    /\ exact_phrase_match(m_service, m_location, normalize_url(m_url))
    /\ fuzzy_similarity_match(m_service, m_location, normalize_url(m_url),
                              FuzzyThresholdNum, FuzzyThresholdDen)
    /\ m_result = [is_match |-> TRUE, method |-> "exact_phrase"]

\* C15: comprehensive_match of api.py and comprehensive_match of the no-LLM
\* module return the same is_match for every (service, location, url), and the
\* API reports no match when the service and the location occur in the slug
\* only inside longer tokens.
Claim_C15_SamePipelineEverywhere ==
    m_pc = "done" =>
        LET slug == api_normalize_url(m_url)
            svc  == Lower(m_service)
            loc  == Lower(m_location)
        IN  /\ m_api.is_match = m_result.is_match
            /\ (/\ Contains(slug, svc) /\ svc \notin Tokens(slug)
                /\ Contains(slug, loc) /\ loc \notin Tokens(slug)
                /\ ~Contains(slug, Lower(Combination(m_service, m_location))))
               => ~m_api.is_match

-----------------------------------------------------------------------------
(* Properties of the single strategies (SpecStrategy) *)

\* x is a whole white-space-separated token of s: a non-empty run without white
\* space that starts at the beginning of s or after white space and ends at the
\* end of s or before white space
IsWholeToken(x, s) ==
    /\ x # <<>>
    /\ \A k \in 1..Len(x) : ~IsSpace(x[k])
    /\ \E i \in 0..(Len(s) - Len(x)) :
          /\ SubSeq(s, i + 1, i + Len(x)) = x
          /\ (i = 0 \/ IsSpace(s[i]))
          /\ (i + Len(x) = Len(s) \/ IsSpace(s[i + Len(x) + 1]))

\* C11: token_based_match returns true if and only if the lower-cased service
\* and the lower-cased location are each a whole white-space-separated token of
\* the lower-cased slug; a term found only inside a longer token does not match.
Thm_C11_WholeTokens ==
    t_pc = "done" =>
        LET slug == Lower(t_slug)
            svc  == Lower(t_service)
            loc  == Lower(t_location)
        IN  /\ t_token <=> (IsWholeToken(svc, slug) /\ IsWholeToken(loc, slug))
            /\ (Contains(slug, svc) /\ ~IsWholeToken(svc, slug)) => ~t_token
            /\ (Contains(slug, loc) /\ ~IsWholeToken(loc, slug)) => ~t_token

\* C11 witness: service and location both occur in the slug, each only inside
\* a longer token, and the strategy rejected the slug.
Wit_C11_SubstringOnly ==
    /\ t_pc = "done"
    /\ Contains(Lower(t_slug), Lower(t_service))
    /\ Contains(Lower(t_slug), Lower(t_location))
    /\ ~IsWholeToken(Lower(t_service), Lower(t_slug))
    /\ ~IsWholeToken(Lower(t_location), Lower(t_slug))
    /\ ~IsSpace(t_service[Len(t_service)]) /\ " " \notin Range(t_service)
    /\ ~t_token

\* the character number k of s exists and is a word character
WordCharAt(s, k) == k >= 1 /\ k <= Len(s) /\ IsWord(s[k])

\* the places i such that x fills s[i+1 .. i+Len(x)] with a word boundary on
\* each side: a word character on exactly one side of each end
BoundedStarts(s, x) ==
    {i \in 0..(Len(s) - Len(x)) :
        /\ SubSeq(s, i + 1, i + Len(x)) = x
        /\ WordCharAt(s, i) # WordCharAt(s, i + 1)
        /\ WordCharAt(s, i + Len(x)) # WordCharAt(s, i + Len(x) + 1)}

\* C18: regex_pattern_match returns true only if the lower-cased slug holds a
\* word-bounded occurrence of the service and, starting at or after its end, a
\* word-bounded occurrence of the location (and, for a slug of one line, always
\* then); a slug whose location occurrences all start before the end of every
\* service occurrence is rejected.
Thm_C18_RegexOrderSensitive ==
    t_pc = "done" =>
        LET slug == Lower(t_slug)
            svc  == Lower(t_service)
            loc  == Lower(t_location)
            inOrder == \E i \in BoundedStarts(slug, svc) :
                          \E j \in BoundedStarts(slug, loc) : j >= i + Len(svc)
        IN  /\ t_regex => inOrder
            /\ ("\n" \notin Range(slug) /\ inOrder) => t_regex
            /\ (/\ BoundedStarts(slug, svc) # {} /\ BoundedStarts(slug, loc) # {}
                /\ \A i \in BoundedStarts(slug, svc) :
                      \A j \in BoundedStarts(slug, loc) : j < i + Len(svc))
               => ~t_regex

\* C18 witness: the slug holds the service and the location as whole words,
\* the location only before the service, and the strategy rejected it while
\* the token strategy accepted it.
Wit_C18_LocationBeforeService ==
    /\ t_pc = "done"
    /\ BoundedStarts(Lower(t_slug), Lower(t_service)) # {}
    /\ BoundedStarts(Lower(t_slug), Lower(t_location)) # {}
    /\ t_token
    /\ ~t_regex

-----------------------------------------------------------------------------
(* Properties of the oracle adapter (SpecOracle) *)

\* the last line of a reply that is not blank, trimmed and lower-cased;
\* the empty string when every line is blank
NotBlank(line) == Strip(line) # <<>>

LastNonEmptyLine(text) ==
    LET lines == SelectSeq(splitlines(text), NotBlank)
    IN  IF lines = <<>> THEN <<>> ELSE Lower(Strip(lines[Len(lines)]))

\* C6: for every reply text, check_match (after a failed exact-phrase test)
\* returns a boolean and never raises: true exactly when the last non-empty
\* line of the reply, trimmed and case-folded, is "yes".
Claim_C6_ReplyParsing ==
    (o_pc = "done" /\ o_result.queried /\ o_transport = "ok") =>
        /\ ~o_result.raised
        /\ o_result.value <=> (LastNonEmptyLine(o_body) = Yes)

-----------------------------------------------------------------------------
(* Properties of the normalizers (SpecNorm) *)

NotEmpty(seg) == seg # <<>>

\* the non-empty '/'-separated segments of a URL, in order
NonEmptySegments(url) == SelectSeq(Split(url, "/"), NotEmpty)

LastNonEmptySegment(url) ==
    NonEmptySegments(url)[Len(NonEmptySegments(url))]

\* how many '/' a URL ends in
RECURSIVE TrailingSlashes(_)
TrailingSlashes(url) ==
    IF EndsWith(url, "/") THEN 1 + TrailingSlashes(SubSeq(url, 1, Len(url) - 1)) ELSE 0

\* the cleaning of a segment, character by character: '_' and '-' become a
\* blank, other characters that are neither word characters nor white space
\* are dropped, letters are lower-cased; then the result is trimmed
RECURSIVE CleanedChars(_)
CleanedChars(seg) ==
    IF seg = <<>> THEN <<>>
    ELSE LET c == Head(seg)
         IN  (IF c \in {"_", "-"} THEN <<" ">>
              ELSE IF IsWord(c) \/ IsSpace(c) THEN <<LowerChar(c)>>
              ELSE <<>>) \o CleanedChars(Tail(seg))

RECURSIVE TrimLeft(_)
TrimLeft(t) == IF t # <<>> /\ IsSpace(Head(t)) THEN TrimLeft(Tail(t)) ELSE t

RECURSIVE TrimRight(_)
TrimRight(t) ==
    IF t # <<>> /\ IsSpace(t[Len(t)]) THEN TrimRight(SubSeq(t, 1, Len(t) - 1)) ELSE t

ExpectedSlug(seg) == TrimRight(TrimLeft(CleanedChars(seg)))

\* C9 as stated: every URL with a non-empty segment yields the cleaned form of
\* its last non-empty segment, however many slashes it ends in.
Claim_C9_LastNonEmptySegment ==
    (n_pc = "done" /\ NonEmptySegments(n_url) # <<>>) =>
        /\ n_slug = ExpectedSlug(LastNonEmptySegment(n_url))
        /\ n_slug_api = ExpectedSlug(LastNonEmptySegment(n_url))

\* C9 amended: normalize_url strips one trailing '/' and takes the last segment
\* of what remains, or the one before it when the last is empty; so a URL ending
\* in at most two slashes yields the cleaned form of its last non-empty segment,
\* and a URL ending in three or more slashes yields the empty slug.
Thm_C9_LastOrSecondToLastSegment ==
    n_pc = "done" =>
        \A slug \in {n_slug, n_slug_api} :
            /\ (TrailingSlashes(n_url) <= 2 /\ NonEmptySegments(n_url) # <<>>)
                  => slug = ExpectedSlug(LastNonEmptySegment(n_url))
            /\ TrailingSlashes(n_url) >= 3 => slug = <<>>
            /\ NonEmptySegments(n_url) = <<>> => slug = <<>>

\* C9 witness: a URL ending in exactly two slashes whose slug is the cleaned
\* last non-empty segment.
Wit_C9_TwoTrailingSlashes ==
    /\ n_pc = "done"
    /\ TrailingSlashes(n_url) = 2
    /\ n_slug # <<>>
    /\ n_slug = ExpectedSlug(LastNonEmptySegment(n_url))

-----------------------------------------------------------------------------
(* Further properties of the four-strategy pipeline (SpecMatch) *)

\* one non-empty token of word characters
IsOneWordToken(s) == s # <<>> /\ \A i \in 1..Len(s) : IsWord(s[i])

HasPunctuation(s) ==
    \E i \in 1..Len(s) : s[i] \in {"-", "_"} \/ (~IsWord(s[i]) /\ ~IsSpace(s[i]))

\* s with every hyphen, underscore and punctuation character read as a blank
Spaced(s) == [i \in 1..Len(s) |-> IF HasPunctuation(<<s[i]>>) THEN " " ELSE s[i]]

\* C25: a service that holds a hyphen, an underscore or a punctuation character
\* is never matched by the four-strategy pipeline: comprehensive_match answers
\* no_match for every URL, because the normalized slug holds none of those
\* characters.
Thm_C25_PunctuatedServiceNeverMatches ==
    (m_pc = "done" /\ HasPunctuation(m_service)) =>
        /\ m_result = [is_match |-> FALSE, method |-> "no_match"]
        /\ ~HasPunctuation(normalize_url(m_url))

\* C25 witness: the URL spells the service with its hyphen and names the
\* location after it, the slug holds the service's words, and there is no match.
Wit_C25_HyphenatedServiceInUrl ==
    /\ m_pc = "done"
    /\ m_service = <<"a", "-", "b">>
    /\ Contains(m_url, m_service \o <<"-">> \o Lower(m_location))
    /\ Contains(normalize_url(m_url), Spaced(m_service))
    /\ ~m_result.is_match

-----------------------------------------------------------------------------
(* Further properties of the normalizers (SpecNorm) *)

\* C26 as stated: normalize_text of the strict pipeline and normalize_url of
\* the comprehensive pipeline (both copies) return the same slug for every URL
\* string, also for URLs that end in more than one '/'.
Claim_C26_NormalizersAgree ==
    n_pc = "done" => (n_text = n_slug /\ n_text = n_slug_api)

-----------------------------------------------------------------------------
(* Further properties of the article endpoints (SpecArticles) *)

\* publish_article has succeeded for the article: it carries a WordPress post
AlreadySent(id) ==
    /\ id \in DOMAIN articles
    /\ articles[id].status \in {"published", "scheduled"}
    /\ articles[id].wordpress_post_id # 0

\* C28 as stated: once publish_article has succeeded for an article, no later
\* publish_article call for the same id creates another WordPress post.
Act_C28_NoSecondPost ==
    \A id \in ArticleIds :
        (AlreadySent(id) /\ IsCall("publish") /\ http_response'.article_id = id)
            => wp_posts' = wp_posts

Claim_C28_SentAtMostOnce == [][Act_C28_NoSecondPost]_vars

\* C21: delete_article on an article of the table answers 200 and removes that
\* row and no other, whether WordPress was not called, raised, answered another
\* status or answered 200, and wordpress_deleted is true only when WordPress was
\* called and answered 200; on an unknown id it answers 404 and the table is as
\* it was.
Act_C21_DeleteOutcome ==
    IsCall("delete") =>
        LET r  == http_response'
            id == r.article_id
        IN  IF id \notin DOMAIN articles
            THEN /\ r.status_code = 404
                 /\ articles' = articles
                 /\ r.wordpress = "not_called"
                 /\ ~http_body'.wordpress_deleted
            ELSE /\ r.status_code = 200
                 /\ DOMAIN articles' = (DOMAIN articles) \ {id}
                 /\ \A a \in DOMAIN articles' : articles'[a] = articles[a]
                 /\ r.wordpress \in WpDeleteReplies \cup {"not_called"}
                 /\ r.wordpress # "not_called" <=> CallsWordpressDelete(articles[id])
                 /\ http_body'.wordpress_deleted <=> r.wordpress = "ok"

Thm_C21_DeleteAlwaysRemovesLocally == [][Act_C21_DeleteOutcome]_vars

\* C21 witness: a delete call whose WordPress request was answered with a
\* status other than 200 has ended: the row is gone from the table, the reply
\* says wordpress_deleted = false, and the other article is still there.
Wit_C21_DeletedLocallyDespiteWordpress ==
    /\ http_response.op = "delete" /\ http_response.status_code = 200
    /\ http_response.wordpress = "rejected"
    /\ ~http_body.wordpress_deleted
    /\ http_response.article_id \notin DOMAIN articles
    /\ DOMAIN articles # {}

\* C22: a check-scheduled call leaves the set of rows as it is and changes a row
\* only from 'scheduled' to 'published', only in its status, and only when the
\* row names a WordPress post whose GET answered 200 with status 'publish'; rows
\* that are to_publish or published stay as they are; every scheduled row whose
\* post reports 'publish' is updated whatever happened to the checks of the
\* other rows; 'updated' counts the rows changed; with WordPress not connected
\* no row changes and 'updated' is 0.
Act_C22_CheckScheduledOutcome ==
    IsCall("check") =>
        LET checks  == http_body'.checks
            changed == {id \in DOMAIN articles : articles'[id] # articles[id]}
        IN  /\ DOMAIN articles' = DOMAIN articles
            /\ wp_posts' = wp_posts
            /\ http_body'.updated = Cardinality(changed)
            /\ wordpress_service = None => changed = {}
            /\ \A id \in changed :
                  /\ articles[id].status = "scheduled"
                  /\ articles'[id] = [articles[id] EXCEPT !.status = "published"]
                  /\ articles[id].wordpress_post_id \in DOMAIN wp_posts
                  /\ wp_posts[articles[id].wordpress_post_id].status = "publish"
                  /\ checks[id] = "ok"
            /\ wordpress_service # None =>
                  \A id \in DOMAIN articles :
                      ( /\ articles[id].status = "scheduled"
                        /\ articles[id].wordpress_post_id \in DOMAIN wp_posts
                        /\ wp_posts[articles[id].wordpress_post_id].status = "publish"
                        /\ checks[id] = "ok" )
                      => id \in changed

Thm_C22_OnlyScheduledToPublished == [][Act_C22_CheckScheduledOutcome]_vars

\* C22 witness: a check-scheduled call looked at two scheduled articles; the
\* check of one failed and that article is still scheduled, the other one's
\* post reported 'publish' and that article is now published.
Wit_C22_OneFailedOneUpdated ==
    /\ http_response.op = "check" /\ http_body.updated = 1
    /\ \E a, b \in DOMAIN http_body.checks :
          /\ http_body.checks[a] = "exception"
          /\ http_body.checks[b] = "ok"
          /\ a \in DOMAIN articles /\ articles[a].status = "scheduled"
          /\ wp_posts[articles[a].wordpress_post_id].status = "publish"
          /\ b \in DOMAIN articles /\ articles[b].status = "published"

-----------------------------------------------------------------------------
(* Properties of GET /wordpress/posts (SpecPosts) *)

\* C23: a call of get_wordpress_posts with fetch_all = true ends, whatever the
\* site answers to each request: it requests at most 50 pages of posts, and
\* after the first page that is answered with a status other than 200 or that
\* is empty it requests no further page.
Thm_C23_PagingTerminates ==
    /\ [](fetch_all => p_requests <= 50)
    /\ [][(fetch_all /\ p_stopped) => p_requests' = p_requests]_vars
    /\ [][(fetch_all /\ p_stopped') => p_pc' \in {"after", "done"}]_vars
    /\ <>(p_pc = "done")

\* C23 witness: a fetch_all call has ended after the site answered every one
\* of 50 requests with a full page: the loop was ended by its page limit.
Wit_C23_StoppedByPageLimit ==
    /\ fetch_all /\ p_pc = "done" /\ p_status = 200
    /\ ~p_stopped
    /\ p_requests = 50
    /\ all_posts = 5000

-----------------------------------------------------------------------------
(* Properties of the tag lists (SpecTags) *)

\* no two positions of the list hold the same value
NoRepeat(list) ==
    \A i, j \in 1 .. Len(list) : list[i] = list[j] => i = j

\* the (service, location) pairs find_research_gaps_logic goes through, in its
\* order: service-major, location-minor
CrossProduct(svcs, locs) ==
    [k \in 1 .. (Len(svcs) * Len(locs)) |->
        <<svcs[((k - 1) \div Len(locs)) + 1], locs[((k - 1) % Len(locs)) + 1]>>]

\* the step is a remove_tag call whose index is outside the list it names, or
\* whose tag_type names no list
RemoveOutOfRange ==
    /\ k_call'.fn = "remove_tag"
    /\ k_call'.tag_type = "services" => ~IndexInRange(k_call'.index, services_tags)
    /\ k_call'.tag_type = "locations" => ~IndexInRange(k_call'.index, locations_tags)

\* C29: after any sequence of add_tag and remove_tag calls (and presses of the
\* remove buttons) neither tag list holds a string twice, and the cross product
\* of the two lists holds no (service, location) pair twice; a remove_tag call
\* with an index out of range leaves both lists as they were.
Thm_C29_TagListsHaveNoDuplicates ==
    /\ [](/\ NoRepeat(services_tags)
          /\ NoRepeat(locations_tags)
          /\ NoRepeat(CrossProduct(services_tags, locations_tags)))
    /\ [][RemoveOutOfRange =>
              (services_tags' = services_tags /\ locations_tags' = locations_tags)]_vars

\* C29 witness: add_tag was called for a service that is in the list already,
\* at its front, with other tags after it; the list holds it once, and with the
\* locations entered the cross product has at least four pairs.
Wit_C29_RepeatedAddRefused ==
    /\ k_call.fn = "add_tag" /\ k_call.tag_type = "services"
    /\ Len(services_tags) >= 2 /\ Len(locations_tags) >= 2
    /\ services_tags[1] = k_call.value

-----------------------------------------------------------------------------
(* Properties of the gap topic parsing (SpecTopic) *)

\* C30 as stated: for every service and location, generate_article_from_gap
\* applied to the gap text '{service} in {location}' takes the lower-cased,
\* trimmed service as its service and the lower-cased, trimmed location as its
\* city, also when the service or the location itself contains ' in '.
Claim_C30_GapTopicRoundTrip ==
    g_pc = "done" =>
        /\ g_parsed.service = Strip(Lower(g_service))
        /\ g_parsed.city = Strip(Lower(g_location))

====
